---- MODULE Spec2Model ----
(***************************************************************************)
(* Model of apps/desktop/src/main/utils/logger.ts: one Logger instance,    *)
(* the log directory it writes to, and the calls it makes to the platform  *)
(* path service, the filesystem and the console; and of                    *)
(* main/utils/process-tracker.ts: the ProcessTracker instances and the     *)
(* singleton of the module.                                                *)
(*                                                                         *)
(* Abstractions.  A formatted log line is identified by the timestamp of   *)
(* the log call that produced it (a logical clock that ticks once per      *)
(* emitted call); a file's content is the sequence of its lines and its    *)
(* size is the number of lines.  Files of the log directory are indexed:   *)
(* index 0 is app.log, index i >= 1 is app.log.i.  Every call to an        *)
(* external collaborator is appended to an event trace, as a test spy      *)
(* would record it; a collaborator call that throws is followed by a       *)
(* "throw" event.  The context of a log call is one of four kinds, told    *)
(* apart by what safeStringify does with it.                               *)
(*                                                                         *)
(* Spec is the Logger under callers that use two severities and every file *)
(* option; SpecLevels is the Logger under callers that use every severity  *)
(* and the largest file options.  SpecRegistry is the module-level logger  *)
(* registry of logger.ts (the default Logger, the module-logger cache,     *)
(* logEvent and flushAllLoggers); its Loggers write to the same log        *)
(* directory.  SpecTracker is the process tracker: a kill is a call to     *)
(* process.kill whose outcome (delivered, no such process, another error)  *)
(* is an input.                                                            *)
(***************************************************************************)
EXTENDS Integers, Sequences, FiniteSets, TLC

VARIABLES
  phase,    \* "new" before the constructor body ran, "ready" after
  logger,   \* the fields of the Logger instance
  fs,       \* the log directory: does it exist, and its files
  now,      \* logical clock: number of log calls emitted so far
  hist,     \* tallies of collaborator calls and rotations since start-up
  last,     \* the latest operation: its kind, inputs and event trace
  registry, \* the module state of logger.ts: defaultLogger, moduleLoggerCache
  tracker   \* process-tracker.ts: the ProcessTracker instances, the singleton

vars == <<phase, logger, fs, now, hist, last, registry, tracker>>

(***************************************************************************)
(* Bounds of the model.                                                    *)
(***************************************************************************)
MaxCalls == 2          \* emitted log calls per behaviour
MaxBufferSize == 2     \* largest bufferSize option
MaxInterval == 2       \* largest rotationCheckInterval option
MaxFileSize == 2       \* largest maxFileSize option (in lines)
MaxBackupsOpt == 3     \* largest maxBackups option
MaxEvents == 2         \* log calls through the registry per behaviour
MaxPids == 3           \* process ids the callers track
MaxTracks == 3         \* trackProcess calls per behaviour
MaxTrackers == 2       \* ProcessTracker instances the singleton goes through
MaxCreated == 2        \* createLogger calls per behaviour

(***************************************************************************)
(* LogLevel                                                                *)
(***************************************************************************)
DEBUG == 0
INFO == 1
WARN == 2
ERROR == 3
LogLevel == {DEBUG, INFO, WARN, ERROR}

\* The console channel of each severity (consoleLog's switch).
LOG_CHANNEL(level) ==
  CASE level = DEBUG -> "console.debug"
    [] level = INFO  -> "console.log"
    [] level = WARN  -> "console.warn"
    [] level = ERROR -> "console.error"

NULL == "null"
LogsDirPath == "userData/logs"
LogFilePath == "userData/logs/app.log"

DEFAULT_OPTIONS ==
  [ level |-> INFO,
    fileLogging |-> FALSE,
    maxFileSize |-> 10 * 1024 * 1024,
    maxBackups |-> 5,
    deferInit |-> FALSE,
    rotationCheckInterval |-> 100,
    bufferSize |-> 0 ]

\* { ...DEFAULT_OPTIONS, ...options }
MergeOptions(defaults, options) ==
  [k \in DOMAIN defaults |-> IF k \in DOMAIN options THEN options[k] ELSE defaults[k]]

\* The severities the callers use where the severity matters only through
\* the level filter: an informational one and the highest one.
Severities == {INFO, ERROR}

\* The option overlays a caller passes to the constructor: file logging on
\* with every option given, or the level alone (the other options default,
\* so file logging is off and none of them is read).
LoggerOptions ==
  [ level : Severities,
    fileLogging : {TRUE},
    maxFileSize : 1..MaxFileSize,
    maxBackups : 1..MaxBackupsOpt,
    deferInit : BOOLEAN,
    rotationCheckInterval : 1..MaxInterval,
    bufferSize : 0..MaxBufferSize ]
  \cup [ level : Severities ]

\* The overlays of callers that use every severity: file logging on with the
\* largest file options and with or without a buffer, or the level alone.
LevelOptions ==
  [ level : LogLevel,
    fileLogging : {TRUE},
    maxFileSize : {MaxFileSize},
    maxBackups : {MaxBackupsOpt},
    deferInit : BOOLEAN,
    rotationCheckInterval : {MaxInterval},
    bufferSize : {0, MaxBufferSize} ]
  \cup [ level : LogLevel ]

(***************************************************************************)
(* The log directory.                                                      *)
(***************************************************************************)
LIVE == 0
MaxIdx == MaxBackupsOpt + 1
NoFiles == [i \in {} |-> <<>>]

Exists(files, i) == i \in DOMAIN files
Size(files, i) == Len(files[i])

\* fs.unlinkSync
Unlink(files, i) == [j \in DOMAIN files \ {i} |-> files[j]]

\* fs.renameSync: replaces the target if it exists
Rename(files, i, j) ==
  [k \in (DOMAIN files \ {i}) \cup {j} |-> IF k = j THEN files[i] ELSE files[k]]

\* fs.appendFileSync: creates the file if it is missing
AppendFile(files, i, content) ==
  [k \in DOMAIN files \cup {i} |->
     IF k = i THEN (IF i \in DOMAIN files THEN files[i] ELSE <<>>) \o content
     ELSE files[k]]

(***************************************************************************)
(* Outcomes of the collaborators during one operation: TRUE means the call *)
(* succeeds.  failAt = k > 0 makes the k-th throwing filesystem call of a  *)
(* rotation (statSync, then each unlinkSync / renameSync) throw.           *)
(***************************************************************************)
IO ==
  [ getPath : BOOLEAN,
    mkdirSync : BOOLEAN,
    appendFileSync : BOOLEAN,
    failAt : 0..(MaxIdx + 1) ]

(***************************************************************************)
(* The world an operation runs in: the Logger, the filesystem, the event   *)
(* trace of the operation, whether an exception is propagating, the        *)
(* number of throwing filesystem calls the current rotation has made, and  *)
(* the record of the latest rotation check.                                *)
(***************************************************************************)
NoRotation == [outcome |-> "none", before |-> NoFiles, after |-> NoFiles]

World(lg, f) ==
  [lg |-> lg, fs |-> f, ev |-> <<>>, exc |-> FALSE, n |-> 0, rot |-> NoRotation]

Call(w, name, data) == [w EXCEPT !.ev = Append(@, [call |-> name, data |-> data])]
Throw(w) == [Call(w, "throw", <<>>) EXCEPT !.exc = TRUE]
\* An error thrown by the Logger's own code (no collaborator call threw).
Raise(w, error) == [Call(w, error, <<>>) EXCEPT !.exc = TRUE]
Catch(w, report) == [Call(w, report, <<>>) EXCEPT !.exc = FALSE]
Bit(b) == IF b THEN 1 ELSE 0

(***************************************************************************)
(* Logger: field initialisers (before the constructor body runs).          *)
(***************************************************************************)
NewLogger ==
  [ options |-> DEFAULT_OPTIONS,
    logFilePath |-> NULL,
    logsDir |-> NULL,
    fileLoggingInitialized |-> FALSE,
    logWriteCount |-> 0,
    logBuffer |-> <<>> ]

\* Every operator below that models statements of a try block, or statements
\* after a call that can throw, starts by passing on a world in which an
\* exception is propagating: the statements are skipped.

\* Faulty variant: the log file path is set as soon as the directory is resolved.
initResolve_pathEarly(w, io) ==
  LET c == Call(w, "app.getPath", <<>>)
  IN IF io.getPath
     THEN [c EXCEPT !.lg.logsDir = LogsDirPath, !.lg.logFilePath = LogFilePath]
     ELSE Throw(c)

\* this.logsDir = path.join(app.getPath('userData'), 'logs')
initResolve(w, io) ==
  LET c == Call(w, "app.getPath", <<>>)
  IN IF io.getPath THEN [c EXCEPT !.lg.logsDir = LogsDirPath] ELSE Throw(c)

\* fs.mkdirSync(this.logsDir, { recursive: true })
initMkdir(w, io) ==
  LET c == Call(w, "fs.mkdirSync", <<>>)
  IN IF io.mkdirSync THEN [c EXCEPT !.fs.dir = TRUE] ELSE Throw(c)

\* if (!fs.existsSync(this.logsDir)) { mkdirSync }
initDirectory(w, io) ==
  IF w.exc THEN w
  ELSE IF w.fs.dir
       THEN Call(w, "fs.existsSync(logsDir)", <<Bit(TRUE)>>)
       ELSE initMkdir(Call(w, "fs.existsSync(logsDir)", <<Bit(FALSE)>>), io)

\* The last two statements of initFileLogging's try block.
initDone(w) ==
  IF w.exc THEN w
  ELSE [w EXCEPT !.lg.logFilePath = LogFilePath, !.lg.fileLoggingInitialized = TRUE]

\* Faulty variant: no catch block, the error of the setup propagates.
initCatch_absent(w) == w

\* Faulty variant: the catch block reports the error but leaves fileLogging on.
initCatch_keepsEnabled(w) ==
  IF w.exc THEN Catch(w, "console.error: Failed to initialize file logging") ELSE w

\* The catch block of initFileLogging.
initCatch(w) ==
  IF w.exc
  THEN [Catch(w, "console.error: Failed to initialize file logging")
          EXCEPT !.lg.options.fileLogging = FALSE]
  ELSE w

initFileLogging(w, io) ==
  IF w.lg.fileLoggingInitialized THEN w
  ELSE initCatch(initDone(initDirectory(initResolve(w, io), io)))

ensureFileLoggingInitialized(w, io) ==
  IF w.lg.options.fileLogging /\ ~w.lg.fileLoggingInitialized
  THEN initFileLogging(w, io)
  ELSE w

\* this.options = { ...DEFAULT_OPTIONS, ...options }
constructorOptions(w, options) ==
  [w EXCEPT !.lg.options = MergeOptions(DEFAULT_OPTIONS, options)]

\* Faulty variant: the constructor ignores deferInit.
constructorInit_ignoresDefer(w, io) ==
  IF w.lg.options.fileLogging THEN initFileLogging(w, io) ELSE w

\* if (this.options.fileLogging && !this.options.deferInit) initFileLogging()
constructorInit(w, io) ==
  IF w.lg.options.fileLogging /\ ~w.lg.options.deferInit
  THEN initFileLogging(w, io)
  ELSE w

constructor(w, options, io) == constructorInit(constructorOptions(w, options), io)

(***************************************************************************)
(* Rotation.                                                               *)
(***************************************************************************)
\* A filesystem call of the rotation that can throw; files2 is its effect.
RotCall(w, name, data, io, files2) ==
  LET c == [Call(w, name, data) EXCEPT !.n = @ + 1]
  IN IF c.n = io.failAt THEN Throw(c) ELSE [c EXCEPT !.fs.files = files2]

\* Faulty variant: the oldest slot is taken to be maxBackups, so nothing is deleted.
rotateMove_noDelete(w, i, io) ==
  IF i = w.lg.options.maxBackups
  THEN RotCall(w, "fs.unlinkSync", <<i>>, io, Unlink(w.fs.files, i))
  ELSE RotCall(w, "fs.renameSync", <<i, i + 1>>, io, Rename(w.fs.files, i, i + 1))

\* Faulty variant: every existing backup is deleted, none is shifted.
rotateMove_deletesAll(w, i, io) ==
  RotCall(w, "fs.unlinkSync", <<i>>, io, Unlink(w.fs.files, i))

\* The body of the backup loop for an existing backup i.
rotateMove(w, i, io) ==
  IF i = w.lg.options.maxBackups - 1
  THEN RotCall(w, "fs.unlinkSync", <<i>>, io, Unlink(w.fs.files, i))
  ELSE RotCall(w, "fs.renameSync", <<i, i + 1>>, io, Rename(w.fs.files, i, i + 1))

\* One iteration of the backup loop, for backup index i.
rotateBackup(w, i, io) ==
  IF w.exc THEN w
  ELSE IF Exists(w.fs.files, i)
       THEN rotateMove(Call(w, "fs.existsSync", <<i, Bit(TRUE)>>), i, io)
       ELSE Call(w, "fs.existsSync", <<i, Bit(FALSE)>>)

\* for (let i = maxBackups - 1; i >= 1; i--): after[i] is the world after the
\* iteration for index i, after[first + 1] the world the loop starts in.
rotateBackups(w, first, io) ==
  LET after[i \in 1..(first + 1)] ==
        IF i = first + 1 THEN w ELSE rotateBackup(after[i + 1], i, io)
  IN IF w.exc \/ first < 1 THEN w ELSE after[1]

\* Faulty variant: the live file is copied to app.log.1 and stays in place.
rotateLive_copies(w, io) ==
  IF w.exc THEN w
  ELSE RotCall(w, "fs.renameSync", <<LIVE, 1>>, io,
               [k \in DOMAIN w.fs.files \cup {1} |->
                  IF k = 1 THEN w.fs.files[LIVE] ELSE w.fs.files[k]])

\* Faulty variant: the live file is deleted instead of becoming app.log.1.
rotateLive_deletes(w, io) ==
  IF w.exc THEN w
  ELSE RotCall(w, "fs.unlinkSync", <<LIVE>>, io, Unlink(w.fs.files, LIVE))

\* fs.renameSync(this.logFilePath, path.join(this.logsDir, 'app.log.1'))
rotateLive(w, io) ==
  IF w.exc THEN w
  ELSE RotCall(w, "fs.renameSync", <<LIVE, 1>>, io, Rename(w.fs.files, LIVE, 1))

Outcome(w, outcome) == IF w.exc THEN w ELSE [w EXCEPT !.rot.outcome = outcome]

\* Faulty variant: a file of exactly maxFileSize is not rotated.
rotateIfLarge_aboveOnly(w, io) ==
  IF w.exc THEN w
  ELSE IF Size(w.fs.files, LIVE) <= w.lg.options.maxFileSize
       THEN Outcome(w, "below")
       ELSE Outcome(rotateLive(rotateBackups(w, w.lg.options.maxBackups - 1, io), io),
                    "rotated")

\* After statSync: return if the file is below the threshold, else rotate.
rotateIfLarge(w, io) ==
  IF w.exc THEN w
  ELSE IF Size(w.fs.files, LIVE) < w.lg.options.maxFileSize
       THEN Outcome(w, "below")
       ELSE Outcome(rotateLive(rotateBackups(w, w.lg.options.maxBackups - 1, io), io),
                    "rotated")

\* The try block of rotateIfNeeded.
rotateTry(w, io) ==
  IF Exists(w.fs.files, LIVE)
  THEN rotateIfLarge(RotCall(Call(w, "fs.existsSync", <<LIVE, Bit(TRUE)>>),
                             "fs.statSync", <<LIVE>>, io, w.fs.files), io)
  ELSE Outcome(Call(w, "fs.existsSync", <<LIVE, Bit(FALSE)>>), "missing")

\* Faulty variant: no catch block, the error of the rotation propagates.
rotateCatch_absent(w) == w

\* The catch block of rotateIfNeeded.
rotateCatch(w) ==
  IF w.exc THEN Catch(w, "console.error: Log rotation failed") ELSE w

\* The record of a rotation check: the files before and after it, and its
\* outcome ("failed" unless the try block completes).
RotBegin(w) ==
  [w EXCEPT !.n = 0,
            !.rot = [outcome |-> "failed", before |-> w.fs.files, after |-> w.fs.files]]
RotEnd(w) == [w EXCEPT !.rot.after = w.fs.files]

rotateIfNeeded(w, io) ==
  IF w.lg.logFilePath = NULL \/ w.lg.logsDir = NULL THEN w
  ELSE RotEnd(rotateCatch(rotateTry(RotBegin(w), io)))

(***************************************************************************)
(* File output.                                                            *)
(***************************************************************************)
\* Faulty variant: the counter is not reset when the rotation failed.
resetWriteCount_unlessFailed(w) ==
  IF w.exc \/ w.rot.outcome = "failed" THEN w ELSE [w EXCEPT !.lg.logWriteCount = 0]

\* this.logWriteCount = 0, after the rotation check
resetWriteCount(w) == IF w.exc THEN w ELSE [w EXCEPT !.lg.logWriteCount = 0]

\* Faulty variant: the check runs when the counter exceeds the interval.
rotationSample_late(w, io) ==
  LET counted == [w EXCEPT !.lg.logWriteCount = @ + 1]
  IN IF counted.lg.logWriteCount > counted.lg.options.rotationCheckInterval
     THEN resetWriteCount(rotateIfNeeded(counted, io))
     ELSE counted

\* Faulty variant: the write counter is not incremented.
rotationSample_uncounted(w, io) ==
  IF w.lg.logWriteCount >= w.lg.options.rotationCheckInterval
  THEN resetWriteCount(rotateIfNeeded(w, io))
  ELSE w

\* The rotation sampling of writeToFile.
rotationSample(w, io) ==
  LET counted == [w EXCEPT !.lg.logWriteCount = @ + 1]
  IN IF counted.lg.logWriteCount >= counted.lg.options.rotationCheckInterval
     THEN resetWriteCount(rotateIfNeeded(counted, io))
     ELSE counted

\* fs.appendFileSync(this.logFilePath, content, 'utf8')
appendToLog(w, content, io) ==
  IF w.exc THEN w
  ELSE IF io.appendFileSync
       THEN [Call(w, "fs.appendFileSync", content)
               EXCEPT !.fs.files = AppendFile(@, LIVE, content)]
       ELSE Throw(Call(w, "fs.appendFileSync", content))

\* Faulty variant: a failed write turns file logging off.
writeCatch_disables(w) ==
  IF w.exc
  THEN [Catch(w, "console.error: Failed to write to log file")
          EXCEPT !.lg.options.fileLogging = FALSE]
  ELSE w

\* Faulty variant: a write whose append failed is taken back from the counter.
writeCatch_uncounts(w) ==
  IF w.exc
  THEN [Catch(w, "console.error: Failed to write to log file")
          EXCEPT !.lg.logWriteCount = @ - 1]
  ELSE w

\* The catch block of writeToFile.
writeCatch(w) ==
  IF w.exc THEN Catch(w, "console.error: Failed to write to log file") ELSE w

\* Faulty variant: the content is appended before the rotation check.
writeToFile_appendFirst(w, content, io) ==
  IF w.lg.logFilePath = NULL \/ w.lg.logsDir = NULL THEN w
  ELSE IF io.appendFileSync
       THEN writeCatch(rotationSample(appendToLog(w, content, io), io))
       ELSE writeCatch(appendToLog(w, content, io))

writeToFile(w, content, io) ==
  IF w.lg.logFilePath = NULL \/ w.lg.logsDir = NULL THEN w
  ELSE writeCatch(appendToLog(rotationSample(w, io), content, io))

\* Faulty variant: the buffer is not cleared by a flush.
flushBuffer_keepsBuffer(w, io) ==
  IF Len(w.lg.logBuffer) = 0 THEN w
  ELSE writeToFile(w, w.lg.logBuffer, io)

\* Faulty variant: the buffer is cleared only when the append succeeds.
flushBuffer_clearsAfterWrite(w, io) ==
  IF Len(w.lg.logBuffer) = 0 THEN w
  ELSE IF io.appendFileSync
       THEN writeToFile([w EXCEPT !.lg.logBuffer = <<>>], w.lg.logBuffer, io)
       ELSE writeToFile(w, w.lg.logBuffer, io)

\* content is logBuffer.join(''): the buffered lines, in order
flushBuffer(w, io) ==
  IF Len(w.lg.logBuffer) = 0 THEN w
  ELSE writeToFile([w EXCEPT !.lg.logBuffer = <<>>], w.lg.logBuffer, io)

flush(w, io) == flushBuffer(w, io)

\* Faulty variant: the buffer is flushed when it exceeds bufferSize.
flushIfFull_late(w, io) ==
  IF Len(w.lg.logBuffer) > w.lg.options.bufferSize THEN flushBuffer(w, io) ELSE w

\* if (this.logBuffer.length >= this.options.bufferSize) flushBuffer()
flushIfFull(w, io) ==
  IF Len(w.lg.logBuffer) >= w.lg.options.bufferSize THEN flushBuffer(w, io) ELSE w

\* safeStringify(context): JSON.stringify with a replacer that turns a
\* repeated object into '[Circular]' and an Error into a plain object; a
\* value JSON.stringify cannot serialize (a BigInt) makes it throw.
safeStringify(context) ==
  CASE context = "plain"  -> "json"
    [] context = "cyclic" -> "json with [Circular]"
    [] context = "bigint" -> "TypeError"

\* const contextStr = context ? ` ${safeStringify(context)}` : ''
formatContext(w, context) ==
  IF context # "none" /\ safeStringify(context) = "TypeError"
  THEN Raise(w, "TypeError")
  ELSE w

\* Faulty variant: a buffered line is also written at once.
fileLogEntry_alsoWrites(w, logEntry, io) ==
  IF w.exc THEN w
  ELSE IF w.lg.options.bufferSize > 0
       THEN writeToFile(flushIfFull([w EXCEPT !.lg.logBuffer = Append(@, logEntry)], io),
                        <<logEntry>>, io)
       ELSE writeToFile(w, <<logEntry>>, io)

\* The buffering of fileLog; logEntry is the line of this call, identified by
\* its timestamp.
fileLogEntry(w, logEntry, io) ==
  IF w.exc THEN w
  ELSE IF w.lg.options.bufferSize > 0
       THEN flushIfFull([w EXCEPT !.lg.logBuffer = Append(@, logEntry)], io)
       ELSE writeToFile(w, <<logEntry>>, io)

fileLog(w, context, logEntry, io) ==
  IF w.lg.logFilePath = NULL \/ w.lg.logsDir = NULL THEN w
  ELSE fileLogEntry(formatContext(w, context), logEntry, io)

consoleLog(w, level) == Call(w, LOG_CHANNEL(level), <<level>>)

\* Faulty variant: the filter lets the severity just below the minimum through.
filtered_offByOne(lg, level) == level < lg.options.level - 1

\* The level filter of log: TRUE when the call is dropped.
filtered(lg, level) == level < lg.options.level

\* if (this.logFilePath) fileLog(...)
fileLogIfPath(w, context, logEntry, io) ==
  IF ~w.exc /\ w.lg.logFilePath # NULL THEN fileLog(w, context, logEntry, io) ELSE w

\* The file output of log, after the console output.
logToFile(w, context, timestamp, io) ==
  IF w.lg.options.fileLogging
  THEN fileLogIfPath(ensureFileLoggingInitialized(w, io), context, timestamp, io)
  ELSE w

\* Faulty variant: the file output runs before the console output.
log_fileFirst(w, level, context, timestamp, io) ==
  IF filtered(w.lg, level) THEN w
  ELSE consoleLog(logToFile(w, context, timestamp, io), level)

log(w, level, context, timestamp, io) ==
  IF filtered(w.lg, level) THEN w
  ELSE logToFile(consoleLog(w, level), context, timestamp, io)

setLevel(w, level) == [w EXCEPT !.lg.options.level = level]

(***************************************************************************)
(* Tallies, from the event trace of an operation.                          *)
(***************************************************************************)
Calls(ev, name) == {i \in 1..Len(ev) : ev[i].call = name}
Count(ev, name) == Cardinality(Calls(ev, name))
LiveChecks(ev) == {i \in Calls(ev, "fs.existsSync") : ev[i].data[1] = LIVE}
LiveMissing(ev) == {i \in LiveChecks(ev) : ev[i].data[2] = 0}
\* The contents handed to appendFileSync, in call order.
Appended(ev) == SelectSeq(ev, LAMBDA e : e.call = "fs.appendFileSync")
InitFailure == "console.error: Failed to initialize file logging"

\* The filesystem calls of the trace ev that threw.
Throws(ev) == {i \in 2..Len(ev) : ev[i].call = "throw"}
\* The unlinkSync / renameSync calls of a rotation that threw.
MoveThrows(ev) ==
  {i \in Throws(ev) : ev[i - 1].call \in {"fs.unlinkSync", "fs.renameSync"}}

Range(seq) == {seq[i] : i \in 1..Len(seq)}
\* The lines held by the files of the log directory.
Lines(files) == UNION {Range(files[i]) : i \in DOMAIN files}
\* The backups app.log.i that exist.
Backups(files) == DOMAIN files \ {LIVE}

\* The trace ev holds an appendFileSync call that returned.
AppendReturned(ev) ==
  \E i \in Calls(ev, "fs.appendFileSync") : i = Len(ev) \/ ev[i + 1].call # "throw"

\* The writes appended to the live file since it reached maxFileSize, after an
\* operation that started with the files before and n such writes: a rotation
\* that ran to its end moved the file away, and an append to a file that was
\* already at or above maxFileSize is one more.
LateWrites(n, before, w) ==
  IF w.rot.outcome = "rotated" THEN 0
  ELSE IF /\ AppendReturned(w.ev) /\ Exists(before, LIVE)
          /\ Size(before, LIVE) >= w.lg.options.maxFileSize
       THEN n + 1
       ELSE n

\* The lines of the contents handed to an appendFileSync call that threw.
LostLines(ev) ==
  UNION {Range(ev[i - 1].data) : i \in {j \in Throws(ev) : ev[j - 1].call = "fs.appendFileSync"}}

\* The rotations that ran to their end one after the other, after an
\* operation that started with n of them: a rotation that failed ends the run.
Streak(n, w) ==
  IF w.rot.outcome = "rotated" THEN n + 1
  ELSE IF w.rot.outcome = "failed" THEN 0
  ELSE n

\* oldBackups: the backups found at start-up; threw: a filesystem call threw;
\* moveThrows: unlinkSync / renameSync calls that threw; rotations: rotations
\* that ran to their end; discarded: the lines a rotation removed from the
\* log directory; lateWrites: see LateWrites; formed: the lines handed to the
\* file output (the log calls that ran fileLog past the formatting of the line);
\* lost: see LostLines; streak: see Streak.
NoHist ==
  [getPath |-> 0, appends |-> 0, stats |-> 0, checks |-> 0, missing |-> 0,
   initFailed |-> FALSE, oldBackups |-> {}, threw |-> FALSE, moveThrows |-> 0,
   rotations |-> 0, discarded |-> {}, lateWrites |-> 0,
   formed |-> {}, lost |-> {}, streak |-> 0]

Tally(h, before, w, emitted) ==
  [ getPath |-> h.getPath + Count(w.ev, "app.getPath"),
    appends |-> h.appends + Count(w.ev, "fs.appendFileSync"),
    stats |-> h.stats + Count(w.ev, "fs.statSync"),
    checks |-> h.checks + Cardinality(LiveChecks(w.ev)),
    missing |-> h.missing + Cardinality(LiveMissing(w.ev)),
    initFailed |-> h.initFailed \/ Count(w.ev, InitFailure) > 0,
    oldBackups |-> h.oldBackups,
    threw |-> h.threw \/ Throws(w.ev) # {},
    moveThrows |-> h.moveThrows + Cardinality(MoveThrows(w.ev)),
    rotations |-> h.rotations + Bit(w.rot.outcome = "rotated"),
    discarded |-> h.discarded \cup (Lines(w.rot.before) \ Lines(w.rot.after)),
    lateWrites |-> LateWrites(h.lateWrites, before, w),
    formed |-> h.formed \cup (IF w.lg.logFilePath # NULL /\ ~w.exc THEN emitted ELSE {}),
    lost |-> h.lost \cup LostLines(w.ev),
    streak |-> Streak(h.streak, w) ]

(***************************************************************************)
(* The state machine.                                                      *)
(***************************************************************************)
\* Files found in the log directory at start-up: nothing, the live file of
\* an earlier run, or that file and the backups app.log.1 and app.log.2 of
\* earlier rotations.  Old lines are older than any line of this run, and
\* older the higher the index of their file.
OldFiles == { NoFiles, [i \in {LIVE} |-> <<-1>>], [i \in {LIVE, 1, 2} |-> <<-1 - i>>] }

\* The module state of logger.ts when the module is loaded: no default
\* Logger, an empty cache.  instances holds every Logger constructed by the
\* registry or by createLogger, by identity (its position); created holds
\* the identities createLogger returned; calls, handled and call are the
\* number of log calls made, the record of the logEvent calls and the
\* record of the latest call.  NoLogger is the null reference to a Logger.
NoLogger == 0
NoRegistry ==
  [ defaultLogger |-> NoLogger,
    moduleLoggerCache |-> [m \in {} |-> 0],
    instances |-> <<>>,
    created |-> {},
    calls |-> 0,
    handled |-> {},
    call |-> [op |-> "none"] ]

\* The module state of process-tracker.ts when the module is loaded: no
\* singleton.  trackers holds the trackedProcesses map of every
\* ProcessTracker constructed so far, by identity (its position), each as
\* the sequence of its entries in insertion order; clock is the time
\* new Date() returns; call is the record of the latest call.  NoTracker is
\* the null reference to a ProcessTracker.
NoTracker == 0
NoTrackers ==
  [ processTrackerInstance |-> NoTracker,
    trackers |-> <<>>,
    clock |-> 0,
    call |-> [op |-> "none"] ]

Init ==
  /\ phase = "new"
  /\ logger = NewLogger
  /\ fs \in {[dir |-> FALSE, files |-> NoFiles]}
            \cup {[dir |-> TRUE, files |-> f] : f \in OldFiles}
  /\ now = 0
  /\ hist = [NoHist EXCEPT !.oldBackups = Backups(fs.files)]
  /\ last = [op |-> "none", level |-> INFO, time |-> 0, ev |-> <<>>, exc |-> FALSE,
             rot |-> NoRotation]
  /\ registry = NoRegistry
  /\ tracker = NoTrackers

Commit(w, op, level, time) ==
  /\ logger' = w.lg
  /\ fs' = w.fs
  /\ now' = time
  /\ hist' = Tally(hist, fs.files, w, IF op = "log" /\ w.ev # <<>> THEN {time} ELSE {})
  /\ last' = [op |-> op, level |-> level, time |-> time, ev |-> w.ev, exc |-> w.exc,
              rot |-> w.rot]
  /\ UNCHANGED <<registry, tracker>>

AllSucceed ==
  [getPath |-> TRUE, mkdirSync |-> TRUE, appendFileSync |-> TRUE, failAt |-> 0]

\* The number of filesystem calls that can throw in a rotation check of
\* logger lg on the files of f: statSync, then one unlinkSync or renameSync
\* per existing backup below maxBackups, and the renameSync of the live file.
RotationCalls(lg, f) ==
  IF ~Exists(f.files, LIVE) THEN 0
  ELSE IF Size(f.files, LIVE) < lg.options.maxFileSize THEN 1
  ELSE 2 + Cardinality(Backups(f.files) \cap 1..(lg.options.maxBackups - 1))

\* The outcomes an operation on logger lg can consult (writes: the operation
\* reaches writeToFile unless the setup fails): the outcome of a call the
\* operation cannot make is fixed to success.
Consulted(lg, f, writes) ==
  LET needsInit == lg.options.fileLogging /\ ~lg.fileLoggingInitialized
      mayWrite == lg.options.fileLogging /\ writes
      mayCheck == mayWrite /\ lg.logWriteCount + 1 >= lg.options.rotationCheckInterval
  IN [ getPath : IF needsInit THEN BOOLEAN ELSE {TRUE},
       mkdirSync : IF needsInit /\ ~f.dir THEN BOOLEAN ELSE {TRUE},
       appendFileSync : IF mayWrite THEN BOOLEAN ELSE {TRUE},
       failAt : IF mayCheck THEN 0..RotationCalls(lg, f) ELSE {0} ]

\* An emitted log call hands a line to writeToFile when the Logger does not
\* buffer, or when the line fills the buffer.
LogWrites(lg) ==
  lg.options.bufferSize = 0 \/ Len(lg.logBuffer) + 1 >= lg.options.bufferSize

\* new Logger(moduleName, options), for an overlay of the set overlays
ConstructWith(overlays) ==
  /\ phase = "new"
  /\ \E options \in overlays :
       \E io \in Consulted(constructorOptions(World(logger, fs), options).lg, fs, FALSE) :
         /\ \E w \in {constructor(World(logger, fs), options, io)} :
              Commit(w, "construct", options.level, now)
  /\ phase' = "ready"

\* The context argument of a log call: absent, an object JSON.stringify can
\* serialize, an object with a reference cycle, an object with a BigInt.
Contexts == {"none", "plain", "cyclic", "bigint"}

\* The contexts a log call of logger lg at this level can tell apart: the
\* context is serialized for the file output only.
Given(lg, level) ==
  IF filtered(lg, level) \/ ~lg.options.fileLogging THEN {"none"} ELSE Contexts

\* debug / info / warn / error, for a severity of the set levels
LogAt(levels) ==
  /\ phase = "ready"
  /\ \E level \in levels :
       /\ filtered(logger, level) \/ now < MaxCalls
       /\ \E io \in IF filtered(logger, level) THEN {AllSucceed}
                   ELSE Consulted(logger, fs, LogWrites(logger)) :
            \E context \in Given(logger, level) :
              \E w \in {log(World(logger, fs), level, context, now + 1, io)} :
                Commit(w, "log", level, IF filtered(logger, level) THEN now ELSE now + 1)
  /\ UNCHANGED phase

Flush ==
  /\ phase = "ready"
  /\ \E io \in IF logger.logBuffer = <<>> THEN {AllSucceed} ELSE Consulted(logger, fs, TRUE) :
       \E w \in {flush(World(logger, fs), io)} : Commit(w, "flush", INFO, now)
  /\ UNCHANGED phase

SetLevelTo(levels) ==
  /\ phase = "ready"
  /\ \E level \in levels :
       \E w \in {setLevel(World(logger, fs), level)} : Commit(w, "setLevel", level, now)
  /\ UNCHANGED phase

\* The Logger under callers that use two severities and every file option.
Construct == ConstructWith(LoggerOptions)
Log == LogAt(Severities)
SetLevel == SetLevelTo(Severities)

Next == Construct \/ Log \/ Flush \/ SetLevel

Spec == Init /\ [][Next]_vars

\* The Logger under callers that use every severity.
ConstructAny == ConstructWith(LevelOptions)
LogAny == LogAt(LogLevel)
SetLevelAny == SetLevelTo(LogLevel)

NextLevels == ConstructAny \/ LogAny \/ Flush \/ SetLevelAny

SpecLevels == Init /\ [][NextLevels]_vars

\* The Logger in a log directory that holds a live file and any set of
\* backups, left by earlier runs (a rotation that failed leaves a gap), under
\* callers whose every write checks the file and finds it at maxFileSize.
LeftFiles ==
  { [i \in {LIVE} \cup indices |-> <<-1 - i>>] : indices \in SUBSET (1..MaxBackupsOpt) }

RotatingOptions ==
  [ level : {INFO},
    fileLogging : {TRUE},
    maxFileSize : {1},
    maxBackups : 1..MaxBackupsOpt,
    deferInit : {FALSE},
    rotationCheckInterval : {1},
    bufferSize : {0} ]

InitLeft ==
  /\ phase = "new"
  /\ logger = NewLogger
  /\ fs \in {[dir |-> TRUE, files |-> f] : f \in LeftFiles}
  /\ now = 0
  /\ hist = [NoHist EXCEPT !.oldBackups = Backups(fs.files)]
  /\ last = [op |-> "none", level |-> INFO, time |-> 0, ev |-> <<>>, exc |-> FALSE,
             rot |-> NoRotation]
  /\ registry = NoRegistry
  /\ tracker = NoTrackers

NextRotating == ConstructWith(RotatingOptions) \/ LogAt({INFO})

SpecRotating == InitLeft /\ [][NextRotating]_vars

(***************************************************************************)
(* The logger registry: defaultLogger, moduleLoggerCache, logEvent and     *)
(* flushAllLoggers.                                                        *)
(***************************************************************************)
\* Faulty variant: cached Loggers are created with the minimum level DEBUG.
CachedOptions_debug == [level |-> DEBUG, fileLogging |-> TRUE, deferInit |-> TRUE]

\* The overlay getCachedLogger passes to the constructor.
CachedOptions == [fileLogging |-> TRUE, deferInit |-> TRUE]

\* The overlay getDefaultLogger passes, by the packaging state of the host.
DefaultLoggerOptions(isPackaged) ==
  [ level |-> IF isPackaged THEN INFO ELSE DEBUG,
    fileLogging |-> isPackaged,
    deferInit |-> TRUE ]

\* new Logger(moduleName, options) in the log directory f: the overlay is
\* kept with the instance, whose identity is its position in instances.
NewInstance(moduleName, options, f) ==
  [ moduleName |-> moduleName,
    options |-> options,
    lg |-> constructor(World(NewLogger, f), options, AllSucceed).lg ]

\* The world a registry function runs in: the module state, the filesystem,
\* the event trace, whether an exception is propagating, and what a spy on
\* the Loggers would record: the name looked up in the cache, the instance
\* whose leveled method was called and that method, the instances flushed.
RegWorld(reg, f) ==
  [ reg |-> reg, fs |-> f, ev |-> <<>>, exc |-> FALSE,
    lookup |-> NULL, handler |-> NoLogger, method |-> "none", flushed |-> <<>> ]

\* moduleLoggerCache.set(moduleName, new Logger(moduleName, {...}))
cacheLogger(rw, moduleName) ==
  [rw EXCEPT
     !.reg.instances = Append(@, NewInstance(moduleName, CachedOptions, rw.fs)),
     !.reg.moduleLoggerCache =
        [m \in DOMAIN @ \cup {moduleName} |->
           IF m = moduleName THEN Len(rw.reg.instances) + 1 ELSE @[m]],
     !.lookup = moduleName]

\* Faulty variant: a Logger is constructed on every lookup.
getCachedLogger_uncached(rw, moduleName) == cacheLogger(rw, moduleName)

getCachedLogger(rw, moduleName) ==
  IF moduleName \in DOMAIN rw.reg.moduleLoggerCache
  THEN [rw EXCEPT !.lookup = moduleName]
  ELSE cacheLogger(rw, moduleName)

getDefaultLogger(rw, isPackaged) ==
  IF rw.reg.defaultLogger # NoLogger THEN rw
  ELSE [rw EXCEPT
          !.reg.instances = Append(@, NewInstance("app", DefaultLoggerOptions(isPackaged), rw.fs)),
          !.reg.defaultLogger = Len(rw.reg.instances) + 1]

\* The module of a log entry that has none.
Undefined == "undefined"

\* entry.module || 'renderer': a missing module and the empty string are falsy.
ModuleOrRenderer(module) ==
  IF module = Undefined \/ module = "" THEN "renderer" ELSE module

\* Faulty variant: an unrecognized level tag is handled as an error.
Method_defaultError(tag) ==
  IF tag \in {"debug", "info", "warn", "error"} THEN tag ELSE "error"

\* The switch of logEvent: the leveled method called for a level tag.
Method(tag) ==
  CASE tag = "debug" -> "debug"
    [] tag = "info"  -> "info"
    [] tag = "warn"  -> "warn"
    [] tag = "error" -> "error"
    [] OTHER         -> "info"

\* debug / info / warn / error: the severity each leveled method logs at.
MethodLevel(method) ==
  CASE method = "debug" -> DEBUG
    [] method = "info"  -> INFO
    [] method = "warn"  -> WARN
    [] method = "error" -> ERROR

\* A leveled method of the Logger instance id is called.
callLogger(rw, id, method, context, timestamp, io) ==
  LET w == log(World(rw.reg.instances[id].lg, rw.fs), MethodLevel(method), context,
               timestamp, io)
  IN [rw EXCEPT !.reg.instances[id].lg = w.lg, !.fs = w.fs, !.ev = w.ev, !.exc = w.exc,
                !.handler = id, !.method = method]

\* The switch of logEvent, on the Logger the cache holds for moduleName.
logEventOn(rw, moduleName, entry, timestamp, io) ==
  callLogger(rw, rw.reg.moduleLoggerCache[moduleName], Method(entry.level),
             entry.context, timestamp, io)

logEvent(rw, entry, timestamp, io) ==
  logEventOn(getCachedLogger(rw, ModuleOrRenderer(entry.module)),
             ModuleOrRenderer(entry.module), entry, timestamp, io)

\* logger.flush() on the Logger instance id.
flushLogger(rw, id, io) ==
  IF rw.exc THEN rw
  ELSE LET w == flush(World(rw.reg.instances[id].lg, rw.fs), io)
       IN [rw EXCEPT !.reg.instances[id].lg = w.lg, !.fs = w.fs, !.ev = @ \o w.ev,
                     !.exc = w.exc, !.flushed = Append(@, id)]

\* moduleLoggerCache.values(): the cached instances in insertion order, which
\* is the order of their construction.
CacheValues(reg) ==
  SelectSeq([id \in 1..Len(reg.instances) |-> id],
            LAMBDA id : \E m \in DOMAIN reg.moduleLoggerCache : reg.moduleLoggerCache[m] = id)

\* for (const logger of moduleLoggerCache.values()) logger.flush()
flushCached(rw, io) ==
  LET order == CacheValues(rw.reg)
      after[k \in 0..Len(order)] ==
        IF k = 0 THEN rw ELSE flushLogger(after[k - 1], order[k], io)
  IN after[Len(order)]

\* if (defaultLogger) defaultLogger.flush()
flushDefault(rw, io) ==
  IF rw.reg.defaultLogger # NoLogger THEN flushLogger(rw, rw.reg.defaultLogger, io) ELSE rw

\* Faulty variant: the default Logger is obtained through getDefaultLogger.
flushAllLoggers_getsDefault(rw, io) ==
  flushCached(flushDefault(getDefaultLogger(rw, FALSE), io), io)

flushAllLoggers(rw, io) == flushCached(flushDefault(rw, io), io)

\* The module names and level tags of the entries the ingestion layer hands
\* to logEvent; "trace" is a tag logEvent does not recognize.
Modules == {"", "renderer", "main"}
LevelTags == {"debug", "info", "warn", "error", "trace"}

\* The record of a registry call: what was called with what, the spy's
\* record, and the instances and the default Logger before the call.
CommitRegistry(rw, op, entry, time) ==
  /\ fs' = rw.fs
  /\ now' = time
  /\ registry' =
       [rw.reg EXCEPT
          !.calls = @ + Bit(op \in {"logEvent", "getDefaultLogger", "log"}),
          !.handled = @ \cup (IF op = "logEvent" THEN {<<rw.lookup, rw.handler>>} ELSE {}),
          !.call = [op |-> op, entry |-> entry, lookup |-> rw.lookup,
                    handler |-> rw.handler, method |-> rw.method,
                    flushed |-> rw.flushed, ev |-> rw.ev, exc |-> rw.exc,
                    instances |-> Len(registry.instances),
                    defaultLogger |-> registry.defaultLogger]]
  /\ UNCHANGED <<phase, logger, hist, last, tracker>>

\* The outcomes a leveled call at this level on the Logger lg can consult,
\* and the time after the call (the clock ticks when the call is emitted).
LeveledIO(lg, level) ==
  IF filtered(lg, level) THEN {AllSucceed} ELSE Consulted(lg, fs, LogWrites(lg))
LeveledTime(lg, level) == IF filtered(lg, level) THEN now ELSE now + 1

\* logEvent(entry), for a level tag and a module of these sets
LogEventOf(tags, modules) ==
  /\ registry.calls < MaxEvents
  /\ \E tag \in tags, module \in modules :
       LET before == getCachedLogger(RegWorld(registry, fs), ModuleOrRenderer(module))
           lg == before.reg.instances[before.reg.moduleLoggerCache[before.lookup]].lg
           level == MethodLevel(Method(tag))
       IN \E io \in LeveledIO(lg, level) :
            \E context \in Given(lg, level) :
              \E rw \in {logEvent(RegWorld(registry, fs),
                                  [level |-> tag, module |-> module, context |-> context],
                                  now + 1, io)} :
                CommitRegistry(rw, "logEvent",
                               [level |-> tag, module |-> module, context |-> context],
                               LeveledTime(lg, level))

LogEvent == LogEventOf(LevelTags, Modules \cup {Undefined})

\* getDefaultLogger().debug / info / warn / error, on a host that is packaged
\* or not (the packaging state is read when the default Logger is created).
DefaultLog ==
  /\ registry.calls < MaxEvents
  /\ \E method \in {"debug", "info", "warn", "error"} :
       \E isPackaged \in IF registry.defaultLogger = NoLogger THEN BOOLEAN ELSE {TRUE} :
         LET got == getDefaultLogger(RegWorld(registry, fs), isPackaged)
             lg == got.reg.instances[got.reg.defaultLogger].lg
             level == MethodLevel(method)
         IN \E io \in LeveledIO(lg, level) :
              \E context \in Given(lg, level) :
                \E rw \in {callLogger(got, got.reg.defaultLogger, method, context,
                                       now + 1, io)} :
                  CommitRegistry(rw, "getDefaultLogger",
                                 [level |-> method, module |-> "app", context |-> context],
                                 LeveledTime(lg, level))

\* flushAllLoggers(): the appends of the flushes can fail.
FlushAllLoggers ==
  \E io \in [getPath : {TRUE}, mkdirSync : {TRUE}, failAt : {0},
             appendFileSync :
               IF \E id \in 1..Len(registry.instances) : registry.instances[id].lg.logBuffer # <<>>
               THEN BOOLEAN ELSE {TRUE}] :
    \E rw \in {flushAllLoggers(RegWorld(registry, fs), io)} :
      CommitRegistry(rw, "flushAllLoggers", [level |-> "none", module |-> Undefined,
                                             context |-> "none"], now)

NextRegistry == LogEvent \/ DefaultLog \/ FlushAllLoggers

SpecRegistry == Init /\ [][NextRegistry]_vars

(***************************************************************************)
(* createLogger, beside the registry.                                      *)
(***************************************************************************)
\* Faulty variant: the Logger is put in the module-logger cache.
createLogger_cached(rw, moduleName, options, io) ==
  LET w == constructor(World(NewLogger, rw.fs), options, io)
      id == Len(rw.reg.instances) + 1
  IN [rw EXCEPT
        !.reg.instances =
           Append(@, [moduleName |-> moduleName, options |-> options, lg |-> w.lg]),
        !.reg.created = @ \cup {id},
        !.reg.moduleLoggerCache =
           [m \in DOMAIN @ \cup {moduleName} |-> IF m = moduleName THEN id ELSE @[m]],
        !.fs = w.fs, !.ev = w.ev, !.exc = w.exc, !.handler = id]

\* return new Logger(moduleName, options): the constructor runs in the log
\* directory of the world, and the new instance is what the caller gets.
createLogger(rw, moduleName, options, io) ==
  LET w == constructor(World(NewLogger, rw.fs), options, io)
      id == Len(rw.reg.instances) + 1
  IN [rw EXCEPT
        !.reg.instances =
           Append(@, [moduleName |-> moduleName, options |-> options, lg |-> w.lg]),
        !.reg.created = @ \cup {id},
        !.fs = w.fs, !.ev = w.ev, !.exc = w.exc, !.handler = id]

\* The overlays the callers of createLogger pass: file logging on with a
\* buffer, initialized in the constructor or deferred.
CreatedOptions ==
  [ fileLogging : {TRUE}, deferInit : BOOLEAN, bufferSize : {MaxBufferSize} ]

\* createLogger('main', options): the name is one the registry caches too.
CreateLogger ==
  /\ Cardinality(registry.created) < MaxCreated
  /\ \E options \in CreatedOptions :
       \E io \in Consulted(constructorOptions(World(NewLogger, fs), options).lg, fs, FALSE) :
         \E rw \in {createLogger(RegWorld(registry, fs), "main", options, io)} :
           CommitRegistry(rw, "createLogger",
                          [level |-> "none", module |-> "main", context |-> "none"], now)

\* info(message) on a Logger that createLogger returned.
LogCreated ==
  /\ registry.calls < MaxEvents
  /\ \E id \in registry.created :
       LET lg == registry.instances[id].lg
       IN \E io \in LeveledIO(lg, INFO) :
            \E rw \in {callLogger(RegWorld(registry, fs), id, "info", "none", now + 1, io)} :
              CommitRegistry(rw, "log",
                             [level |-> "info", module |-> "main", context |-> "none"],
                             LeveledTime(lg, INFO))

\* The registry is used for the module 'main' as well.
NextFactory ==
  CreateLogger \/ LogCreated \/ LogEventOf({"info"}, {"main"}) \/ FlushAllLoggers

SpecFactory == Init /\ [][NextFactory]_vars

(***************************************************************************)
(* The process tracker.                                                    *)
(***************************************************************************)
KillSignal == {"SIGTERM", "SIGKILL", "SIGINT"}

\* What process.kill does: the signal is sent, or the call throws an error
\* whose code is ESRCH (no such process) or another one.
KillOutcome == {"sent", "ESRCH", "EPERM"}

\* The world a tracker function runs in: the module state, the event trace,
\* whether an exception is propagating, the boolean the function returns
\* and the instance it returns.
TrackWorld(tr) ==
  [tr |-> tr, ev |-> <<>>, exc |-> FALSE, ret |-> "void", got |-> NoTracker]

\* Map operations on trackedProcesses, a sequence of ProcessInfo records
\* { pid, name, startTime } in insertion order (a set on an existing key
\* keeps the position of the key).
Has(entries, pid) == \E i \in 1..Len(entries) : entries[i].pid = pid
MapSet(entries, info) ==
  IF Has(entries, info.pid)
  THEN [i \in 1..Len(entries) |-> IF entries[i].pid = info.pid THEN info ELSE entries[i]]
  ELSE Append(entries, info)
MapDelete(entries, pid) == SelectSeq(entries, LAMBDA info : info.pid # pid)
Keys(entries) == [i \in 1..Len(entries) |-> entries[i].pid]

\* new ProcessTracker()
newTracker(tw) == [tw EXCEPT !.tr.trackers = Append(@, <<>>), !.got = Len(tw.tr.trackers) + 1]

trackNotice(tw, t, pid) ==
  IF Has(tw.tr.trackers[t], pid)
  THEN Call(tw, "console.log: already tracked, updating", <<pid>>)
  ELSE tw

trackSet(tw, t, info) ==
  Call([tw EXCEPT !.tr.trackers[t] = MapSet(@, info)],
       "console.log: Now tracking process", <<info.pid, Len(MapSet(tw.tr.trackers[t], info))>>)

trackProcess(tw, t, pid, name) ==
  trackSet(trackNotice(tw, t, pid), t, [pid |-> pid, name |-> name, startTime |-> tw.tr.clock])

untrackProcess(tw, t, pid) ==
  IF Has(tw.tr.trackers[t], pid)
  THEN Call([tw EXCEPT !.tr.trackers[t] = MapDelete(@, pid)],
            "console.log: Untracked process", <<pid, Len(tw.tr.trackers[t]) - 1>>)
  ELSE tw

isTracked(tr, t, pid) == Has(tr.trackers[t], pid)
getTrackedCount(tr, t) == Len(tr.trackers[t])
getTrackedPids(tr, t) == Keys(tr.trackers[t])

\* signal: KillSignal = 'SIGTERM'
SignalOrDefault(signal) == IF signal = Undefined THEN "SIGTERM" ELSE signal

\* The try block of a kill: process.kill(pid, signal) and the report.
killAttempt(tw, pid, signal, outcome) ==
  IF tw.exc THEN tw
  ELSE IF outcome = "sent"
       THEN Call(Call(tw, "process.kill", <<pid, signal>>), "console.log: Sent", <<pid, signal>>)
       ELSE [Call(Call(tw, "process.kill", <<pid, signal>>), "throw", <<outcome>>)
               EXCEPT !.exc = TRUE]

\* Faulty variant: an error other than ESRCH is thrown on.
killCatch_rethrowsOther(tw) ==
  IF tw.exc /\ tw.ev[Len(tw.ev)].data[1] = "ESRCH"
  THEN Catch(tw, "console.log: already exited")
  ELSE tw

\* The catch block of a kill: err.code is the code of the error thrown.
killCatch(tw) ==
  IF tw.exc
  THEN IF tw.ev[Len(tw.ev)].data[1] = "ESRCH"
       THEN Catch(tw, "console.log: already exited")
       ELSE Catch(tw, "console.error: Failed to kill process")
  ELSE tw

\* this.trackedProcesses.delete(pid); return true
killUntrack(tw, t, pid) ==
  IF tw.exc THEN tw
  ELSE [tw EXCEPT !.tr.trackers[t] = MapDelete(@, pid), !.ret = "true"]

\* Faulty variant: the process stays tracked when the kill throws.
killProcess_keepsFailed(tw, t, pid, signal, outcome) ==
  IF ~Has(tw.tr.trackers[t], pid) THEN [tw EXCEPT !.ret = "false"]
  ELSE IF outcome = "sent"
       THEN killUntrack(killCatch(killAttempt(tw, pid, SignalOrDefault(signal), outcome)), t, pid)
       ELSE [killCatch(killAttempt(tw, pid, SignalOrDefault(signal), outcome))
               EXCEPT !.ret = "true"]

killProcess(tw, t, pid, signal, outcome) ==
  IF ~Has(tw.tr.trackers[t], pid) THEN [tw EXCEPT !.ret = "false"]
  ELSE killUntrack(killCatch(killAttempt(tw, pid, SignalOrDefault(signal), outcome)), t, pid)

\* The loop of killAllTrackedProcesses over the copy of the entries.
killEntries(tw, entries, signal, outcomes) ==
  LET after[k \in 0..Len(entries)] ==
        IF k = 0 THEN tw
        ELSE killCatch(killAttempt(after[k - 1], entries[k].pid, signal,
                                   outcomes[entries[k].pid]))
  IN after[Len(entries)]

\* this.trackedProcesses.clear()
killClear(tw, t) ==
  IF tw.exc THEN tw
  ELSE Call([tw EXCEPT !.tr.trackers[t] = <<>>],
            "console.log: All tracked processes cleared", <<>>)

killAllTrackedProcesses(tw, t, signal, outcomes) ==
  IF Len(tw.tr.trackers[t]) = 0
  THEN Call(tw, "console.log: No tracked processes to kill", <<>>)
  ELSE killClear(killEntries(Call(tw, "console.log: Killing tracked processes",
                                  <<Len(tw.tr.trackers[t]), SignalOrDefault(signal)>>),
                             tw.tr.trackers[t], SignalOrDefault(signal), outcomes), t)

forceKillAll(tw, t, outcomes) == killAllTrackedProcesses(tw, t, "SIGKILL", outcomes)

\* Faulty variant: a ProcessTracker is constructed on every call.
getProcessTracker_alwaysNew(tw) ==
  [newTracker(tw) EXCEPT !.tr.processTrackerInstance = Len(tw.tr.trackers) + 1]

getProcessTracker(tw) ==
  IF tw.tr.processTrackerInstance = NoTracker
  THEN [newTracker(tw) EXCEPT !.tr.processTrackerInstance = Len(tw.tr.trackers) + 1]
  ELSE [tw EXCEPT !.got = tw.tr.processTrackerInstance]

\* processTrackerInstance = null; console.log('[ProcessTracker] Disposed')
disposeClear(tw) ==
  IF tw.exc THEN tw
  ELSE Call([tw EXCEPT !.tr.processTrackerInstance = NoTracker],
            "console.log: Disposed", <<>>)

disposeProcessTracker(tw, outcomes) ==
  IF tw.tr.processTrackerInstance # NoTracker
  THEN disposeClear(killAllTrackedProcesses(tw, tw.tr.processTrackerInstance, Undefined,
                                            outcomes))
  ELSE tw

\* The process ids and names the callers use; the tracker they call is the
\* one getProcessTracker returns (the singleton, if there is one).
Pids == 1..MaxPids
ProcessNames == {"agent"}
Held == {tracker.processTrackerInstance} \ {NoTracker}
\* The signal arguments the callers pass: none (the default applies) or one.
Signals == {Undefined, "SIGINT"}

\* The outcomes of the kills of a call that kills the processes of entries.
Outcomes(entries) ==
  [Pids -> KillOutcome] \cap
    {o \in [Pids -> KillOutcome] : \A pid \in Pids : ~Has(entries, pid) => o[pid] = "sent"}

\* The record of a tracker call: what was called on which instance with what,
\* the module state before it, its trace and what it returned.
CommitTracker(tw, op, t, pid, signal) ==
  /\ tracker' =
       [tw.tr EXCEPT
          !.clock = @ + Bit(op = "trackProcess"),
          !.call = [op |-> op, t |-> t, pid |-> pid, signal |-> signal,
                    trackers |-> tracker.trackers,
                    instance |-> tracker.processTrackerInstance,
                    ev |-> tw.ev, exc |-> tw.exc, ret |-> tw.ret, got |-> tw.got]]
  /\ UNCHANGED <<phase, logger, fs, now, hist, last, registry>>

TrackProcess ==
  /\ tracker.clock < MaxTracks
  /\ \E t \in Held, pid \in Pids, name \in ProcessNames :
       \E tw \in {trackProcess(TrackWorld(tracker), t, pid, name)} :
         CommitTracker(tw, "trackProcess", t, pid, Undefined)

UntrackProcess ==
  \E t \in Held, pid \in Pids :
    \E tw \in {untrackProcess(TrackWorld(tracker), t, pid)} :
      CommitTracker(tw, "untrackProcess", t, pid, Undefined)

KillProcess ==
  \E t \in Held, pid \in Pids, signal \in Signals :
    \E outcome \in IF Has(tracker.trackers[t], pid) THEN KillOutcome ELSE {"sent"} :
      \E tw \in {killProcess(TrackWorld(tracker), t, pid, signal, outcome)} :
        CommitTracker(tw, "killProcess", t, pid, signal)

KillAllTrackedProcesses ==
  \E t \in Held, signal \in Signals :
    \E outcomes \in Outcomes(tracker.trackers[t]) :
      \E tw \in {killAllTrackedProcesses(TrackWorld(tracker), t, signal, outcomes)} :
        CommitTracker(tw, "killAllTrackedProcesses", t, 0, signal)

ForceKillAll ==
  \E t \in Held :
    \E outcomes \in Outcomes(tracker.trackers[t]) :
      \E tw \in {forceKillAll(TrackWorld(tracker), t, outcomes)} :
        CommitTracker(tw, "forceKillAll", t, 0, "SIGKILL")

GetProcessTracker ==
  /\ tracker.processTrackerInstance # NoTracker \/ Len(tracker.trackers) < MaxTrackers
  /\ \E tw \in {getProcessTracker(TrackWorld(tracker))} :
       CommitTracker(tw, "getProcessTracker", tw.got, 0, Undefined)

DisposeProcessTracker ==
  \E outcomes \in IF tracker.processTrackerInstance = NoTracker
                  THEN Outcomes(<<>>)
                  ELSE Outcomes(tracker.trackers[tracker.processTrackerInstance]) :
    \E tw \in {disposeProcessTracker(TrackWorld(tracker), outcomes)} :
      CommitTracker(tw, "disposeProcessTracker", tracker.processTrackerInstance, 0, Undefined)

NextTracker ==
  \/ TrackProcess \/ UntrackProcess \/ KillProcess
  \/ KillAllTrackedProcesses \/ ForceKillAll \/ GetProcessTracker \/ DisposeProcessTracker

\* The tracker does not touch the log directory.
InitTracker == Init /\ fs = [dir |-> FALSE, files |-> NoFiles]

SpecTracker == InitTracker /\ [][NextTracker]_vars

(***************************************************************************)
(* Properties.                                                             *)
(***************************************************************************)
\* The lines lo, lo + 1, ..., hi, in order.
Run(lo, hi) == [k \in 1..(hi - lo + 1) |-> lo + k - 1]
AppendOf(content) == [call |-> "fs.appendFileSync", data |-> content]
\* The latest operation was a log call that passed the level filter.
Emitted == last.op = "log" /\ last.ev # <<>>
\* A call of the file-logging setup threw during the operation with trace ev.
SetupThrew(ev) ==
  \E i \in 2..Len(ev) :
    ev[i].call = "throw" /\ ev[i - 1].call \in {"app.getPath", "fs.mkdirSync"}
\* Calls to the path service and the filesystem in the trace ev.
PlatformCalls(ev) == {i \in 1..Len(ev) : ev[i].call \in
  {"app.getPath", "fs.existsSync(logsDir)", "fs.mkdirSync", "fs.existsSync",
   "fs.statSync", "fs.unlinkSync", "fs.renameSync", "fs.appendFileSync"}}
FileState(lg) ==
  IF lg.fileLoggingInitialized THEN "initialized"
  ELSE IF lg.options.fileLogging THEN "not initialized" ELSE "disabled"

\* C1: a leveled call whose severity is strictly below the Logger's current
\* minimum level has no effect: no console call, no file append, no buffer
\* push, no change of the write counter, no file-logging setup (the Logger,
\* the files and the tallies of collaborator calls are unchanged and the
\* call's trace is empty).
C1_FilteredCallNoEffect ==
  [][ (last'.op = "log" /\ last'.level < logger.options.level)
        => /\ last'.ev = <<>> /\ ~last'.exc
           /\ logger' = logger /\ fs' = fs /\ hist' = hist /\ now' = now ]_vars

\* A filtered-out call was made on a Logger whose deferred setup is pending.
C1_Witness ==
  /\ last.op = "log" /\ last.level < logger.options.level
  /\ logger.options.fileLogging /\ ~logger.fileLoggingInitialized

\* C2: when path resolution or directory creation throws during the setup (at
\* construction, or in the first emitted log call of a deferred Logger), no
\* exception reaches the caller, the failure is reported once on
\* console.error as 'Failed to initialize file logging', and the operation
\* appends nothing.
C2_SetupFailureAbsorbed ==
  SetupThrew(last.ev)
    => /\ last.op \in {"construct", "log"}
       /\ ~last.exc
       /\ Count(last.ev, InitFailure) = 1
       /\ last.ev[Len(last.ev)].call = InitFailure
       /\ Count(last.ev, "fs.appendFileSync") = 0

\* The deferred setup failed at mkdirSync inside a log call.
C2_Witness ==
  /\ last.op = "log" /\ SetupThrew(last.ev) /\ Count(last.ev, "fs.mkdirSync") = 1

\* C3: the file-logging state only moves from 'not initialized' to
\* 'initialized' or 'disabled', and both are permanent; after a failed setup
\* no operation calls the path service or the filesystem, and the setup is
\* attempted at most once per instance.
C3_FileStatePermanent ==
  [][ /\ (phase = "ready" /\ FileState(logger) # "not initialized")
           => FileState(logger') = FileState(logger)
      /\ hist.initFailed => PlatformCalls(last'.ev) = {} /\ FileState(logger') = "disabled"
      /\ hist'.getPath <= 1 ]_vars

\* A log call was emitted (console only) after the setup had failed earlier.
C3_Witness ==
  /\ hist.initFailed /\ Emitted /\ ~SetupThrew(last.ev)
  /\ last.ev = <<[call |-> LOG_CHANNEL(last.level), data |-> <<last.level>>]>>

\* C4: logFilePath is non-null if and only if the initialized flag is true,
\* also after a setup that failed part-way.
C4_PathIffInitialized ==
  (logger.logFilePath # NULL) <=> logger.fileLoggingInitialized

\* The setup failed after the directory path had been computed.
C4_Witness ==
  hist.initFailed /\ logger.logsDir # NULL /\ logger.logFilePath = NULL

\* C5: a Logger constructed with fileLogging and deferInit does not call the
\* path service at construction nor in a filtered-out call; the first call
\* is made during the first log call that passes the level filter.
C5_DeferredSetup ==
  (phase = "ready" /\ logger.options.deferInit
     /\ (logger.options.fileLogging \/ hist.initFailed))
    => /\ now = 0 => hist.getPath = 0
       /\ now >= 1 => hist.getPath = 1
       /\ (Emitted /\ now = 1) => Count(last.ev, "app.getPath") = 1

\* The first emitted call of a deferred Logger, made after a filtered-out one.
C5_Witness ==
  /\ logger.options.deferInit /\ logger.options.fileLogging
  /\ Emitted /\ now = 1 /\ Count(last.ev, "app.getPath") = 1
  /\ last.level > DEBUG

\* C6: with file logging initialized and bufferSize = N > 0, an emitted log
\* call that leaves fewer than N lines buffered appends nothing, and the call
\* that brings the buffer to N lines makes exactly one append, of the last N
\* lines in call order, and empties the buffer; the buffer always holds the
\* lines of the latest calls, in order.
C6_BufferedAppend ==
  (Emitted /\ logger.fileLoggingInitialized /\ logger.options.bufferSize > 0)
    => LET N == logger.options.bufferSize
           k == Len(logger.logBuffer)
       IN /\ k < N
          /\ logger.logBuffer = Run(now - k + 1, now)
          /\ Appended(last.ev) =
               IF k = 0 THEN <<AppendOf(Run(now - N + 1, now))>> ELSE <<>>

\* The second call of a Logger with bufferSize 2 appended both lines.
C6_Witness ==
  /\ Emitted /\ logger.options.bufferSize = 2
  /\ Appended(last.ev) = <<AppendOf(<<1, 2>>)>>

\* C7: flush on a buffer of K > 0 lines makes exactly one append, of those K
\* lines in order, and leaves the buffer empty; flush on an empty buffer
\* (also of a Logger whose file logging is disabled or not initialized) does
\* nothing: no append, no size check, no change of the write counter.
C7_Flush ==
  [][ last'.op = "flush"
        => IF logger.logBuffer = <<>>
           THEN /\ last'.ev = <<>> /\ ~last'.exc
                /\ logger' = logger /\ fs' = fs /\ hist' = hist
           ELSE /\ Appended(last'.ev) = <<AppendOf(logger.logBuffer)>>
                /\ logger'.logBuffer = <<>>
                /\ Len(logger.logBuffer) < logger.options.bufferSize
                /\ ~last'.exc ]_vars

\* A flush wrote a partly filled buffer.
C7_Witness ==
  /\ last.op = "flush" /\ Appended(last.ev) = <<AppendOf(<<now>>)>>
  /\ logger.logBuffer = <<>> /\ logger.options.bufferSize = 2

\* C8: with file logging initialized and bufferSize = 0, every emitted log
\* call makes exactly one append, within the call, of exactly its own line.
C8_WriteThrough ==
  (Emitted /\ logger.fileLoggingInitialized /\ logger.options.bufferSize = 0)
    => Appended(last.ev) = <<AppendOf(<<now>>)>>

\* A write-through call whose rotation check failed still appended its line.
C8_Witness ==
  /\ Emitted /\ logger.fileLoggingInitialized /\ logger.options.bufferSize = 0
  /\ last.rot.outcome = "failed"
  /\ Appended(last.ev) = <<AppendOf(<<now>>)>>

\* C9: with rotationCheckInterval = R, fewer than R disk writes since
\* construction cause no size check, and as long as the live file existed at
\* every check, w disk writes have caused exactly w \div R size checks.
C9_SizeCheckSampling ==
  phase = "ready"
    => LET R == logger.options.rotationCheckInterval
       IN /\ hist.appends < R => hist.stats = 0
          /\ hist.missing = 0 => hist.stats = hist.appends \div R
          /\ hist.stats + hist.missing = hist.checks

\* Two size checks after two intervals of writes.
C9_Witness ==
  /\ hist.missing = 0 /\ hist.stats = 2
  /\ hist.appends = 2 * logger.options.rotationCheckInterval

\* C10: after a rotation without filesystem failure, app.log.1 holds what the
\* live file held, every backup that existed at an index i < maxBackups - 1
\* holds its content at index i + 1, the content of index maxBackups - 1 is
\* in no file, and the live file does not exist: the next filesystem call is
\* the append of the triggering write.
C10_RotationShift ==
  last.rot.outcome = "rotated"
    => LET b == last.rot.before
           a == last.rot.after
           mb == logger.options.maxBackups
           moved == CHOOSE i \in 1..Len(last.ev) :
                      last.ev[i] = [call |-> "fs.renameSync", data |-> <<LIVE, 1>>]
       IN /\ Exists(b, LIVE) /\ Exists(a, 1) /\ a[1] = b[LIVE]
          /\ \A i \in 1..(mb - 2) : Exists(b, i) => Exists(a, i + 1) /\ a[i + 1] = b[i]
          /\ (mb - 1 >= 1 /\ Exists(b, mb - 1))
               => \A j \in DOMAIN a : Range(a[j]) \cap Range(b[mb - 1]) = {}
          /\ ~Exists(a, LIVE)
          /\ Len(last.ev) > moved
          /\ last.ev[moved + 1].call = "fs.appendFileSync"

\* A rotation that moved an existing app.log.1 to app.log.2.
C10_Witness ==
  /\ last.rot.outcome = "rotated"
  /\ logger.options.maxBackups = 3
  /\ Exists(last.rot.before, 1) /\ Exists(last.rot.after, 2)

(***************************************************************************)
(* The backup chain.                                                       *)
(***************************************************************************)
\* The backups are app.log.1 .. app.log.n, for some n from 0 to most.
Contiguous(files, most) == \E n \in 0..most : Backups(files) = 1..n

\* C11: given a live log file at or above maxFileSize, after the rotation the
\* backup that was at index maxBackups is gone (no file, or a file with
\* another content, is at that index), and the backups that exist among the
\* indices 1..maxBackups-1 are app.log.1 .. app.log.n for some n.
C11_OldestDeleted ==
  last.rot.outcome = "rotated"
    => LET b == last.rot.before
           a == last.rot.after
           mb == logger.options.maxBackups
       IN /\ Exists(b, mb) => (~Exists(a, mb) \/ a[mb] # b[mb])
          /\ \E n \in 0..(mb - 1) : Backups(a) \cap 1..(mb - 1) = 1..n

\* C12: starting from no backups and with no filesystem failure, after
\* maxBackups or more rotations exactly maxBackups backups exist, at
\* app.log.1 through app.log.<maxBackups>.
C12_BackupsRetained ==
  (phase = "ready" /\ hist.oldBackups = {} /\ ~hist.threw
     /\ hist.rotations >= logger.options.maxBackups)
    => Backups(fs.files) = 1..logger.options.maxBackups

\* C13: when no filesystem call has failed and the backups found at start-up
\* were app.log.1 .. app.log.k for some k from 0 to maxBackups, the backups
\* are app.log.1 .. app.log.n for some n from 0 to maxBackups.
C13_NoGap ==
  (phase = "ready" /\ ~hist.threw
     /\ Contiguous([i \in hist.oldBackups |-> <<>>], logger.options.maxBackups))
    => Contiguous(fs.files, logger.options.maxBackups)

\* Two rotations of a Logger that started without backups left two backups.
C13_Witness ==
  /\ phase = "ready" /\ ~hist.threw /\ hist.oldBackups = {}
  /\ hist.rotations = 2 /\ Backups(fs.files) = {1, 2}

\* C14: if at most one unlinkSync or renameSync of the rotations has failed
\* (and the backups found at start-up were app.log.1 .. app.log.k), the
\* backups are still app.log.1 .. app.log.n for some n, after that rotation
\* and after every later one.
C14_NoGapAfterFailure ==
  (phase = "ready" /\ hist.moveThrows <= 1
     /\ Contiguous([i \in hist.oldBackups |-> <<>>], logger.options.maxBackups))
    => Contiguous(fs.files, logger.options.maxBackups)

\* C15: with no filesystem failure and rotationCheckInterval = R, at most R
\* disk writes are appended to the live file after it reached maxFileSize:
\* the next size check, at most R writes later, rotates it to app.log.1.
C15_OversizedWithinInterval ==
  (phase = "ready" /\ ~hist.threw)
    => hist.lateWrites <= logger.options.rotationCheckInterval

\* With R = 2 a file that had grown beyond maxFileSize was rotated at the
\* second write.
C15_Witness ==
  /\ ~hist.threw /\ logger.options.rotationCheckInterval = 2
  /\ last.rot.outcome = "rotated"
  /\ Size(last.rot.before, LIVE) > logger.options.maxFileSize
  /\ Exists(fs.files, 1) /\ fs.files[1] = last.rot.before[LIVE]
  /\ hist.lateWrites = 0

(***************************************************************************)
(* The lines of the log directory.                                         *)
(***************************************************************************)
\* Every line of the file at index i was written after every line of the file
\* at index j (a line is the time of its log call).
Newer(files, i, j) == \A x \in Range(files[i]) : \A y \in Range(files[j]) : x > y

\* C16: when no filesystem call has failed, the files are ordered by age: for
\* existing backups i < j every line of app.log.i was written after every
\* line of app.log.j, and every line of the live file (index 0) was written
\* after every line of every backup.
C16_BackupsOrderedByAge ==
  (phase = "ready" /\ ~hist.threw)
    => \A i \in DOMAIN fs.files : \A j \in DOMAIN fs.files :
         i < j => Newer(fs.files, i, j)

\* After two rotations: the live file, app.log.1 with the first line of this
\* run and app.log.2 with the line of an earlier run.
C16_Witness ==
  /\ ~hist.threw /\ hist.rotations = 2
  /\ fs.files = [i \in {LIVE, 1, 2} |-> IF i = 2 THEN <<-1>> ELSE <<2 - i>>]

\* The lines of the backups from the highest index down to app.log.1, then of
\* the live file, then of the buffer.
Chain(files, buffer) ==
  LET upTo[i \in 0..(MaxIdx + 1)] ==
        IF i = MaxIdx + 1 THEN <<>>
        ELSE upTo[i + 1] \o (IF Exists(files, i) THEN files[i] ELSE <<>>)
  IN upTo[0] \o buffer

\* C17: for one Logger with no filesystem failure, the lines of (backups
\* oldest to newest, live file, buffer) are in the order of their log calls
\* and none occurs twice; every line handed to the file output is among them
\* unless a rotation discarded it, and a discarded line is in no file.
C17_LinesOnceInOrder ==
  (phase = "ready" /\ ~hist.threw)
    => LET c == Chain(fs.files, logger.logBuffer)
       IN /\ \A k \in 1..(Len(c) - 1) : c[k] < c[k + 1]
          /\ \A line \in hist.formed : line \in Range(c) \/ line \in hist.discarded
          /\ hist.discarded \cap Range(c) = {}
          /\ {line \in Range(c) : line > 0} \subseteq hist.formed

\* A line in the buffer, the line before it in the live file, older lines in
\* the backups, and the oldest backup discarded by the rotation.
C17_Witness ==
  /\ ~hist.threw /\ logger.logBuffer = <<2>>
  /\ fs.files = [i \in {LIVE, 1, 2} |-> IF i = LIVE THEN <<1>> ELSE <<-i>>]
  /\ hist.discarded = {-3} /\ hist.formed = {1, 2}

(***************************************************************************)
(* Console output.                                                         *)
(***************************************************************************)
\* The console channel of each severity: debug -> debug, info -> log,
\* warn -> warn, error -> error.
SeverityChannel ==
  [level \in LogLevel |->
     IF level = DEBUG THEN "console.debug"
     ELSE IF level = INFO THEN "console.log"
     ELSE IF level = WARN THEN "console.warn" ELSE "console.error"]
\* The calls of the trace ev to the console channels of the severities (the
\* reports of caught errors are traced under their own names).
ChannelCalls(ev) == {i \in 1..Len(ev) : ev[i].call \in Range(<<"console.debug",
  "console.log", "console.warn", "console.error">>)}

WriteFailure == "console.error: Failed to write to log file"
\* The appendFileSync call of the operation with trace ev threw.
AppendThrew(ev) == \E i \in Throws(ev) : ev[i - 1].call = "fs.appendFileSync"
\* After a failed append: nothing reached the caller, the failure was
\* reported once, and file logging is still enabled and initialized.
AppendFailureAbsorbed ==
  /\ ~last.exc /\ Count(last.ev, WriteFailure) = 1
  /\ logger.options.fileLogging /\ logger.fileLoggingInitialized
  /\ logger.logFilePath # NULL
\* The step is a log call that passes the level filter and returns.
EmittedStep == last'.op = "log" /\ last'.level >= logger.options.level /\ ~last'.exc

\* C19 as stated, for a next call that returns: after a failed append the
\* error is caught and reported, file logging stays enabled and initialized,
\* and an unfiltered log call that comes next attempts a file append.
C19_NextCallAppends ==
  [][ AppendThrew(last.ev)
        => /\ AppendFailureAbsorbed
           /\ EmittedStep => Count(last'.ev, "fs.appendFileSync") >= 1 ]_vars

\* C19, amended: after a failed append the error is caught and reported,
\* file logging stays enabled and initialized, and the next disk write (a
\* flush of a non-empty buffer, or a log call that hands its line to
\* writeToFile) attempts a file append again; a log call that comes next on a
\* Logger whose buffer it does not fill buffers its line.
C19_NextWriteAppends ==
  [][ AppendThrew(last.ev)
        => /\ AppendFailureAbsorbed
           /\ (last'.op = "flush" /\ logger.logBuffer # <<>>)
                => Count(last'.ev, "fs.appendFileSync") = 1
           /\ (last'.op = "log" /\ now' > now /\ now' \in hist'.formed)
                => IF LogWrites(logger)
                   THEN /\ Count(last'.ev, "fs.appendFileSync") = 1
                        /\ now' \in Range(last'.ev[CHOOSE i \in Calls(last'.ev, "fs.appendFileSync") : TRUE].data)
                   ELSE /\ Count(last'.ev, "fs.appendFileSync") = 0
                        /\ logger'.logBuffer = Append(logger.logBuffer, now') ]_vars

\* The append of the first call failed and its line is lost; the second call
\* appended its own line.
C19_Witness ==
  /\ last.op = "log" /\ logger.options.bufferSize = 0
  /\ Appended(last.ev) = <<AppendOf(<<2>>)>> /\ ~AppendThrew(last.ev)
  /\ hist.formed = {1, 2} /\ hist.appends = 2
  /\ Exists(fs.files, LIVE) /\ 1 \notin Lines(fs.files) /\ 2 \in Lines(fs.files)
  /\ 1 \notin hist.discarded

(***************************************************************************)
(* The context of a log call.                                              *)
(***************************************************************************)
\* C20: a log call never throws because of its context: with file logging
\* initialized, no exception of a log call reaches the caller, whatever its
\* context (also one that JSON.stringify cannot serialize).
C20_ContextNeverThrows ==
  (last.op = "log" /\ logger.fileLoggingInitialized) => ~last.exc

(***************************************************************************)
(* The rotation check.                                                     *)
(***************************************************************************)
\* C27: after an operation that ran a rotation check the write counter is 0,
\* whatever the check did (file missing, below the threshold, rotated, or a
\* filesystem call of the rotation failed); the counter is the number of disk
\* writes since the latest check, and with rotationCheckInterval = R the
\* checks made are at most one per R disk writes.
C27_CounterResetAfterCheck ==
  phase = "ready"
    => LET R == logger.options.rotationCheckInterval
       IN /\ last.rot.outcome \in {"missing", "below", "rotated", "failed"}
               => logger.logWriteCount = 0
          /\ logger.logWriteCount = hist.appends - R * hist.checks
          /\ hist.checks * R <= hist.appends

\* With R = 2 the second write ran a check whose rotation failed, and the
\* counter is 0.
C27_Witness ==
  /\ logger.options.rotationCheckInterval = 2 /\ hist.appends = 2 /\ hist.checks = 1
  /\ last.rot.outcome = "failed" /\ MoveThrows(last.ev) # {}
  /\ logger.logWriteCount = 0

RotationFailure == "console.error: Log rotation failed"
\* The statSync, unlinkSync or renameSync call of the trace ev that threw.
RotationThrow(ev) ==
  {i \in Throws(ev) : ev[i - 1].call \in {"fs.statSync", "fs.unlinkSync", "fs.renameSync"}}
\* The step is a disk write: a flush of a non-empty buffer, or a log call
\* that hands its line to writeToFile.
WriteStep ==
  \/ last'.op = "flush" /\ logger.logBuffer # <<>>
  \/ last'.op = "log" /\ now' > now /\ now' \in hist'.formed /\ LogWrites(logger)

\* C28: when a filesystem call of a rotation throws, nothing reaches the
\* caller; the next call of the operation is the report on console.error and
\* no further call of the rotation is made; the append of the write that
\* triggered the check comes next and, if it returns, its content is the end
\* of the live file; file logging stays enabled and initialized, and the
\* next disk write makes its append.
C28_RotationFailureAbsorbed ==
  [][ /\ last'.rot.outcome = "failed"
           => /\ ~last'.exc
              /\ Cardinality(RotationThrow(last'.ev)) = 1
              /\ LET t == CHOOSE i \in RotationThrow(last'.ev) : TRUE
                      ev == last'.ev
                 IN /\ Len(ev) >= t + 2
                    /\ ev[t + 1].call = RotationFailure
                    /\ ev[t + 2].call = "fs.appendFileSync"
                    /\ ev[t + 2].data # <<>>
                    /\ (Len(ev) = t + 2)
                         => /\ Exists(fs'.files, LIVE)
                            /\ Len(fs'.files[LIVE]) >= Len(ev[t + 2].data)
                            /\ SubSeq(fs'.files[LIVE],
                                      Len(fs'.files[LIVE]) - Len(ev[t + 2].data) + 1,
                                      Len(fs'.files[LIVE])) = ev[t + 2].data
              /\ logger'.options.fileLogging /\ logger'.fileLoggingInitialized
      /\ (last.rot.outcome = "failed" /\ WriteStep)
           => /\ Count(last'.ev, "fs.appendFileSync") = 1
              /\ (last'.op = "log" /\ AppendReturned(last'.ev))
                   => now' \in Range(fs'.files[LIVE]) ]_vars

\* The rename of the live file threw after the backups had been moved; the
\* line of the call is at the end of the oversized live file.
C28_Witness ==
  /\ last.rot.outcome = "failed" /\ ~last.exc
  /\ Count(last.ev, RotationFailure) = 1
  /\ last.ev[Len(last.ev) - 2].call = "throw"
  /\ last.ev[Len(last.ev) - 3] = [call |-> "fs.renameSync", data |-> <<LIVE, 1>>]
  /\ Exists(fs.files, LIVE) /\ Size(fs.files, LIVE) > logger.options.maxFileSize
  /\ fs.files[LIVE][Size(fs.files, LIVE)] = now

\* C29: a rotation check changes no file and makes no statSync call when the
\* live file does not exist, and changes no file when its size is strictly
\* below maxFileSize; when the size is maxFileSize or more it rotates (the
\* live file is moved away) unless a filesystem call of the check throws.
C29_RotationThreshold ==
  LET b == last.rot.before
      a == last.rot.after
      o == last.rot.outcome
      big == Exists(b, LIVE) /\ Size(b, LIVE) >= logger.options.maxFileSize
  IN o # "none"
       => /\ ~Exists(b, LIVE)
               => o = "missing" /\ a = b /\ Count(last.ev, "fs.statSync") = 0
          /\ (Exists(b, LIVE) /\ ~big)
               => /\ a = b /\ Count(last.ev, "fs.statSync") = 1
                  /\ o = IF RotationThrow(last.ev) = {} THEN "below" ELSE "failed"
          /\ big
               => /\ Count(last.ev, "fs.statSync") = 1
                  /\ o = IF RotationThrow(last.ev) = {} THEN "rotated" ELSE "failed"
                  /\ o = "rotated" => ~Exists(a, LIVE) /\ Exists(a, 1) /\ a[1] = b[LIVE]

\* A live file of exactly maxFileSize lines was rotated.
C29_Witness ==
  /\ last.rot.outcome = "rotated"
  /\ Size(last.rot.before, LIVE) = logger.options.maxFileSize
  /\ logger.options.maxFileSize = 2

(***************************************************************************)
(* The buffer.                                                             *)
(***************************************************************************)
\* C30: between operations, a Logger with bufferSize = N > 0 holds fewer than
\* N lines in its buffer, a Logger with bufferSize = 0 holds none, and the
\* buffer is empty whenever file logging is not initialized.
C30_BufferBelowSize ==
  phase = "ready"
    => /\ logger.options.bufferSize > 0
            => Len(logger.logBuffer) < logger.options.bufferSize
       /\ logger.options.bufferSize = 0 => logger.logBuffer = <<>>
       /\ ~logger.fileLoggingInitialized => logger.logBuffer = <<>>

\* With bufferSize 2, a line was buffered after the buffer had been written.
C30_Witness ==
  /\ Emitted /\ logger.options.bufferSize = 2
  /\ Len(logger.logBuffer) = 1 /\ hist.appends = 1 /\ Appended(last.ev) = <<>>

MatchingMethod(tag) ==
  IF tag \in {"debug", "info", "warn", "error"} THEN tag ELSE "info"

\* The latest call was a logEvent call, whose entry was handled by the cached
\* Logger of the module name, through the method that matches its level tag
\* (seen also on the console, when the Logger emits the call).
Dispatched(name) ==
  LET c == registry.call
  IN /\ name \in DOMAIN registry.moduleLoggerCache
     /\ c.handler = registry.moduleLoggerCache[name]
     /\ registry.instances[c.handler].moduleName = name
     /\ c.method = MatchingMethod(c.entry.level)
     /\ c.ev # <<>> => c.ev[1].call = SeverityChannel[MethodLevel(MatchingMethod(c.entry.level))]

\* C22 as stated: logEvent dispatches to the cached Logger for entry.module,
\* or for 'renderer' when the entry has no module.
C22_DispatchByModule ==
  registry.call.op = "logEvent"
    => Dispatched(IF registry.call.entry.module = Undefined THEN "renderer"
                  ELSE registry.call.entry.module)

\* C22, amended: logEvent dispatches to the cached Logger for entry.module,
\* or for 'renderer' when the entry has no module or an empty one, calling
\* the leveled method that matches entry.level and info for any other tag.
C22_DispatchByModuleOrRenderer ==
  registry.call.op = "logEvent"
    => Dispatched(IF registry.call.entry.module \in {Undefined, ""} THEN "renderer"
                  ELSE registry.call.entry.module)

\* An entry with an unrecognized level tag and an empty module name was
\* logged by the 'renderer' Logger through info.
C22_Witness ==
  /\ registry.call.op = "logEvent"
  /\ registry.call.entry.level = "trace" /\ registry.call.entry.module = ""
  /\ registry.call.method = "info"
  /\ registry.instances[registry.call.handler].moduleName = "renderer"
  /\ registry.call.ev # <<>> /\ registry.call.ev[1].call = "console.log"

\* C23: flushAllLoggers calls flush on the default Logger if it exists and
\* then on every cached Logger, once each; afterwards their buffers are
\* empty; it does not throw and it constructs no Logger (the default Logger
\* is still absent if it was absent).
C23_FlushAll ==
  registry.call.op = "flushAllLoggers"
    => /\ ~registry.call.exc
       /\ Len(registry.instances) = registry.call.instances
       /\ registry.defaultLogger = registry.call.defaultLogger
       /\ registry.call.flushed =
            (IF registry.defaultLogger # NoLogger THEN <<registry.defaultLogger>> ELSE <<>>)
              \o CacheValues(registry)
       /\ \A id \in 1..Len(registry.instances) : registry.instances[id].lg.logBuffer = <<>>

\* flushAllLoggers flushed the default Logger and then a cached Logger.
C23_Witness ==
  /\ registry.call.op = "flushAllLoggers"
  /\ registry.defaultLogger = 1 /\ registry.call.flushed = <<1, 2>>

(***************************************************************************)
(* The process tracker.                                                    *)
(***************************************************************************)
\* The process.kill calls of the trace ev, in call order, as <<pid, signal>>.
Kills(ev) ==
  LET kills == SelectSeq(ev, LAMBDA e : e.call = "process.kill")
  IN [i \in 1..Len(kills) |-> kills[i].data]
\* A process.kill call of the trace ev threw an error with this code.
KillThrew(ev, code) ==
  \E i \in 2..Len(ev) :
    ev[i].call = "throw" /\ ev[i - 1].call = "process.kill" /\ ev[i].data = <<code>>
\* The entries of the tracker the latest call was made on, before the call.
TrackedBefore == tracker.call.trackers[tracker.call.t]

\* C24: killAllTrackedProcesses (and forceKillAll, with SIGKILL) calls
\* process.kill exactly once for every process tracked at the call, with the
\* requested signal (SIGTERM when none is given), also when kills before it
\* threw, with ESRCH or with another error; it does not throw and leaves the
\* tracker with a count of 0.
C24_KillAllAttemptsEach ==
  tracker.call.op \in {"killAllTrackedProcesses", "forceKillAll"}
    => LET signal == IF tracker.call.signal = Undefined THEN "SIGTERM"
                     ELSE tracker.call.signal
       IN /\ Kills(tracker.call.ev) =
               [i \in 1..Len(TrackedBefore) |-> <<TrackedBefore[i].pid, signal>>]
          /\ ~tracker.call.exc
          /\ getTrackedCount(tracker, tracker.call.t) = 0

\* Three processes were tracked; the kill of the second threw ESRCH, the kill
\* of the first another error, and all three kills were attempted.
C24_Witness ==
  /\ tracker.call.op = "killAllTrackedProcesses"
  /\ Len(TrackedBefore) = 3
  /\ Len(Kills(tracker.call.ev)) = 3
  /\ KillThrew(tracker.call.ev, "ESRCH") /\ KillThrew(tracker.call.ev, "EPERM")
  /\ tracker.call.ev[3].call = "throw" /\ tracker.call.ev[6].call = "throw"
  /\ tracker.call.ev[6].data = <<"ESRCH">>

\* C25: killProcess(pid) returns true exactly when pid was tracked at the
\* call; for a tracked pid it calls process.kill once, with the signal given
\* (SIGTERM by default), and the pid is untracked afterwards, the other
\* entries being kept, also when the kill throws; for an untracked pid it
\* makes no call and the tracked entries are unchanged.
C25_KillProcess ==
  tracker.call.op = "killProcess"
    => LET c == tracker.call
           after == tracker.trackers[c.t]
       IN /\ ~c.exc
          /\ c.ret = IF Has(TrackedBefore, c.pid) THEN "true" ELSE "false"
          /\ IF Has(TrackedBefore, c.pid)
             THEN /\ Kills(c.ev) =
                       << <<c.pid, IF c.signal = Undefined THEN "SIGTERM" ELSE c.signal>> >>
                  /\ ~isTracked(tracker, c.t, c.pid)
                  /\ after = SelectSeq(TrackedBefore, LAMBDA info : info.pid # c.pid)
             ELSE /\ c.ev = <<>>
                  /\ after = TrackedBefore

\* A kill without signal argument threw an error other than ESRCH; the
\* process is untracked, another one is still tracked.
C25_Witness ==
  /\ tracker.call.op = "killProcess" /\ tracker.call.signal = Undefined
  /\ tracker.call.ret = "true" /\ KillThrew(tracker.call.ev, "EPERM")
  /\ Kills(tracker.call.ev) = << <<tracker.call.pid, "SIGTERM">> >>
  /\ Len(TrackedBefore) = 2 /\ getTrackedCount(tracker, tracker.call.t) = 1

\* C26: getProcessTracker returns the singleton, which is the instance the
\* call before returned unless disposeProcessTracker ran: with no singleton
\* it constructs a new, empty tracker and makes it the singleton.
\* disposeProcessTracker sends SIGTERM to every process the singleton tracks,
\* empties it and clears the singleton; with no singleton it does nothing.
\* No other function changes the singleton.
C26_Singleton ==
  LET c == tracker.call
  IN /\ c.op = "getProcessTracker"
          => /\ c.got = tracker.processTrackerInstance /\ c.got # NoTracker
             /\ IF c.instance # NoTracker
                THEN c.got = c.instance /\ tracker.trackers = c.trackers
                ELSE /\ c.got = Len(c.trackers) + 1
                     /\ tracker.trackers = Append(c.trackers, <<>>)
     /\ c.op = "disposeProcessTracker"
          => /\ tracker.processTrackerInstance = NoTracker /\ ~c.exc
             /\ IF c.instance # NoTracker
                THEN /\ Kills(c.ev) =
                          [i \in 1..Len(c.trackers[c.instance]) |->
                             <<c.trackers[c.instance][i].pid, "SIGTERM">>]
                     /\ tracker.trackers = [c.trackers EXCEPT ![c.instance] = <<>>]
                ELSE c.ev = <<>> /\ tracker.trackers = c.trackers
     /\ c.op \notin {"none", "getProcessTracker", "disposeProcessTracker"}
          => tracker.processTrackerInstance = c.instance

\* After a dispose that killed two processes, getProcessTracker returned a
\* second, empty tracker.
C26_Witness ==
  /\ tracker.call.op = "getProcessTracker"
  /\ tracker.call.instance = NoTracker /\ tracker.call.got = 2
  /\ tracker.trackers = << <<>>, <<>> >> /\ tracker.clock = 2


(***************************************************************************)
(* The write counter.                                                      *)
(***************************************************************************)
\* C31: between the operations of a Logger with rotationCheckInterval = R >= 1
\* the write counter c satisfies 0 <= c < R, and it counts the appendFileSync
\* calls whether they returned or threw: c is the number of those calls
\* modulo R.
C31_CounterBelowInterval ==
  phase = "ready" /\ logger.options.rotationCheckInterval >= 1
    => LET R == logger.options.rotationCheckInterval
       IN /\ 0 <= logger.logWriteCount /\ logger.logWriteCount < R
          /\ logger.logWriteCount = hist.appends % R

\* With R = 2 the only append so far threw, and the counter is 1.
C31_Witness ==
  /\ phase = "ready" /\ logger.options.rotationCheckInterval = 2
  /\ hist.appends = 1 /\ AppendThrew(last.ev) /\ fs.files = NoFiles
  /\ logger.logWriteCount = 1


(***************************************************************************)
(* The order of the rotation check and the append.                         *)
(***************************************************************************)
\* C32: the rotation check of a disk write runs before the append of that
\* write: when the check rotates the file, every filesystem call of the
\* rotation precedes the append, app.log.1 is the live file as it was before
\* the write and holds no line of the write, and once the append returns the
\* new live file holds exactly the content of the write.
C32_CheckBeforeAppend ==
  phase = "ready" /\ last.rot.outcome = "rotated"
    => /\ Exists(fs.files, 1) /\ fs.files[1] = last.rot.before[LIVE]
       /\ \A i \in Calls(last.ev, "fs.appendFileSync") :
            /\ \A j \in Calls(last.ev, "fs.renameSync") : j < i
            /\ Range(last.ev[i].data) \cap Range(fs.files[1]) = {}
            /\ AppendReturned(last.ev)
                 => Exists(fs.files, LIVE) /\ fs.files[LIVE] = last.ev[i].data
       /\ ~AppendReturned(last.ev) => ~Exists(fs.files, LIVE)

\* The log call that filled a buffer of two lines rotated a live file that
\* held a line: the line is in app.log.1 and the new live file holds the two
\* lines of the write.
C32_Witness ==
  /\ phase = "ready" /\ last.op = "log" /\ last.rot.outcome = "rotated"
  /\ logger.options.bufferSize = 2
  /\ Exists(fs.files, LIVE) /\ Len(fs.files[LIVE]) = 2
  /\ Exists(fs.files, 1) /\ Len(fs.files[1]) = 1
  /\ AppendReturned(last.ev)


(***************************************************************************)
(* The lines of a failed flush.                                            *)
(***************************************************************************)
\* C33: flushBuffer empties the buffer before the write, so the lines of an
\* append that failed are lost: after the operation the buffer is empty, and
\* from then on those lines are in no file and not in the buffer, and no
\* append that returns holds any of them.
C33_FailedFlushLosesLines ==
  phase = "ready"
    => /\ AppendThrew(last.ev)
            => /\ logger.logBuffer = <<>>
               /\ LostLines(last.ev) # {} /\ LostLines(last.ev) \subseteq hist.lost
       /\ hist.lost \cap Lines(fs.files) = {}
       /\ hist.lost \cap Range(logger.logBuffer) = {}
       /\ \A i \in Calls(last.ev, "fs.appendFileSync") :
            (i = Len(last.ev) \/ last.ev[i + 1].call # "throw")
              => Range(last.ev[i].data) \cap hist.lost = {}

\* With bufferSize = 2, a flush of one buffered line failed and the line was
\* lost; a later flush wrote the one line logged since, and only that line.
C33_Witness ==
  /\ phase = "ready" /\ logger.options.bufferSize = 2 /\ last.op = "flush"
  /\ Cardinality(hist.lost) = 1 /\ AppendReturned(last.ev)
  /\ logger.logBuffer = <<>>
  /\ Exists(fs.files, LIVE) /\ Len(fs.files[LIVE]) = 1
  /\ hist.lost \cap Range(fs.files[LIVE]) = {}
  /\ fs.files[LIVE][1] > 0


(***************************************************************************)
(* The backup chain after rotations that succeed.                          *)
(***************************************************************************)
\* C34: from any set of backups, after maxBackups - 1 rotations that ran to
\* their end one after the other, the backups that exist within
\* 1..maxBackups-1 are exactly the indices 1..maxBackups-1; after k such
\* rotations the indices 1..min(k, maxBackups-1) exist.
C34_ChainHeals ==
  phase = "ready" /\ logger.options.fileLogging
    => LET kept == 1..(logger.options.maxBackups - 1)
       IN /\ hist.streak >= logger.options.maxBackups - 1
               => Backups(fs.files) \cap kept = kept
          /\ \A i \in kept : i <= hist.streak => Exists(fs.files, i)

\* With maxBackups = 3 the directory was left with app.log and app.log.2 and
\* without app.log.1; two rotations later app.log.1 and app.log.2 exist and
\* hold the two files rotated in this run, the older one in app.log.2.
C34_Witness ==
  /\ phase = "ready" /\ logger.options.maxBackups = 3
  /\ hist.oldBackups = {2} /\ hist.streak = 2 /\ ~hist.threw
  /\ Backups(fs.files) = {1, 2}
  /\ fs.files[2] = <<-1>> /\ fs.files[1] = <<1>>


(***************************************************************************)
(* Debug entries of logEvent.                                              *)
(***************************************************************************)
\* The Logger instance id is as its constructor left it, file logging
\* deferred: not initialized, nothing buffered, nothing counted.
Untouched(id) ==
  LET lg == registry.instances[id].lg
  IN /\ ~lg.fileLoggingInitialized /\ lg.logFilePath = NULL /\ lg.logsDir = NULL
     /\ lg.logBuffer = <<>> /\ lg.logWriteCount = 0

\* C35: every Logger of the module-logger cache has the minimum level INFO
\* after every registry call, and a logEvent call for an entry with level
\* 'debug' makes no console call, no file append and no file-logging
\* initialization: no collaborator is called, the log directory and every
\* existing Logger are as before, and the only change is the cached Logger
\* created for the module of the entry if the cache had none.
C35_DebugEntriesDropped ==
  [][ /\ \A m \in DOMAIN registry'.moduleLoggerCache :
           registry'.instances[registry'.moduleLoggerCache[m]].lg.options.level = INFO
      /\ registry'.call.op = "logEvent" /\ registry'.call.entry.level = "debug"
           => LET name == ModuleOrRenderer(registry'.call.entry.module)
                  known == name \in DOMAIN registry.moduleLoggerCache
              IN /\ registry'.call.ev = <<>> /\ ~registry'.call.exc
                 /\ registry'.call.method = "debug"
                 /\ fs' = fs /\ now' = now
                 /\ registry'.defaultLogger = registry.defaultLogger
                 /\ Len(registry'.instances) = Len(registry.instances) + Bit(~known)
                 /\ \A id \in 1..Len(registry.instances) :
                      registry'.instances[id] = registry.instances[id]
                 /\ DOMAIN registry'.moduleLoggerCache
                      = DOMAIN registry.moduleLoggerCache \cup {name}
                 /\ ~known => /\ registry'.moduleLoggerCache[name] = Len(registry'.instances)
                               /\ Untouched(Len(registry.instances))'
    ]_vars

\* A 'debug' entry for the module 'main' created the second cached Logger
\* and called nothing, while the Logger of the first entry has initialized
\* file logging and written its line.
C35_Witness ==
  /\ registry.call.op = "logEvent" /\ registry.call.entry.level = "debug"
  /\ registry.call.entry.module = "main"
  /\ registry.call.instances = 1 /\ Len(registry.instances) = 2
  /\ registry.call.handler = 2 /\ registry.call.ev = <<>>
  /\ registry.instances[1].lg.fileLoggingInitialized
  /\ Untouched(2)
  /\ Exists(fs.files, LIVE)


(***************************************************************************)
(* createLogger and flushAllLoggers.                                       *)
(***************************************************************************)
\* C36: a Logger that createLogger returned is never in the registry (it is
\* neither the default Logger nor a value of the module-logger cache: every
\* createLogger call constructs a new instance and leaves the registry as it
\* was), and flushAllLoggers does not flush it: its buffered lines, its
\* write counter and its file-logging state are as before the call.
C36_CreatedLoggersNotFlushed ==
  [][ /\ \A id \in registry'.created :
           /\ id # registry'.defaultLogger
           /\ \A m \in DOMAIN registry'.moduleLoggerCache :
                registry'.moduleLoggerCache[m] # id
      /\ registry'.call.op = "flushAllLoggers"
           => \A id \in registry.created :
                /\ registry'.instances[id] = registry.instances[id]
                /\ id \notin Range(registry'.call.flushed)
      /\ registry'.call.op = "createLogger"
           => /\ registry'.call.handler = Len(registry.instances) + 1
              /\ Len(registry'.instances) = Len(registry.instances) + 1
              /\ registry'.created = registry.created \cup {registry'.call.handler}
              /\ registry'.moduleLoggerCache = registry.moduleLoggerCache
              /\ registry'.defaultLogger = registry.defaultLogger
              /\ \A id \in 1..Len(registry.instances) :
                   registry'.instances[id] = registry.instances[id]
    ]_vars

\* flushAllLoggers flushed the cached Logger of 'main' while a Logger that
\* createLogger('main') returned holds a buffered line, and still holds it.
C36_Witness ==
  /\ registry.call.op = "flushAllLoggers" /\ registry.call.flushed # <<>>
  /\ "main" \in DOMAIN registry.moduleLoggerCache
  /\ \E id \in registry.created :
       /\ registry.instances[id].moduleName = "main"
       /\ Len(registry.instances[id].lg.logBuffer) = 1
       /\ registry.instances[id].lg.fileLoggingInitialized

====
